---- MODULE Spec2Model ----
(***************************************************************************)
(* A model of the swarm client library (src/src/swarm): the LRU identity   *)
(* caches of Client, the Container / Switch / Interface proxies, and the   *)
(* streamed request protocol of Client._ws_request.                        *)
(*                                                                         *)
(* Strings that the code takes apart (paths, display names) are sequences  *)
(* of character codes.  A path is the sequence of its dot-separated        *)
(* segments, so the root path "" is << <<>> >> and "a.b" is                *)
(* << <<97>>, <<98>> >>.                                                   *)
(***************************************************************************)
EXTENDS Integers, Sequences, FiniteSets, TLC

VARIABLES
    focus,        \* the workload the caller runs against the client
    cont_cache,   \* Client._cont_cache, least recently used entry first
    sw_cache,     \* Client._sw_cache
    intf_cache,   \* Client._intf_cache
    heap,         \* the live proxy objects, by object identity
    held,         \* identities of the proxies the caller keeps a reference to
    nfresh,       \* how many fresh keys the workload has looked up so far
    nbulk,        \* how many long listings the workload has asked for
    recency,      \* per cache: the cached keys in order of their last lookup
    lost,         \* proxies that were evicted while holding pending changes
    ret,          \* what the last call did: lookups, HTTP requests, result
    ws_cookie,    \* Client._ws_cookie
    writespecs,   \* Client._writespecs
    sent,         \* frames the client has sent on the websocket, in order
    gens,         \* the generator objects the caller's variables refer to
    running,      \* the generator that is executing (blocked in recv()), or "none"
    budget,       \* frames the server may still deliver
    wp,           \* the dict of the WriteProgress object the caller looks at
    auth,         \* the MachAuthToken: its _cookie, and the handshakes it has made
    tv            \* the TimedValue the caller has constructed, and from what

cacheVars == <<cont_cache, sw_cache, intf_cache, heap, held, nfresh, nbulk, recency, lost>>
wsVars == <<ws_cookie, writespecs, sent, gens, running, budget, wp, auth, tv>>
vars == <<focus, cacheVars, ret, wsVars>>

-----------------------------------------------------------------------------
(* Bounds of the model *)

\* fresh keys a workload looks up one by one, beside those of long listings
Extra == 2
\* long listings (one entry short of filling a cache) a workload asks for
MaxBulk == 2

\* segments of the longest path a save() may produce
MaxDepth == 3

\* frames the server sends in one run
MaxFrames == 3
\* WriteSpecs the caller queues in one run
MaxQueue == 2

(* Program constants: the maxsize of the three LRUCache objects *)
ContCacheSize == 50
SwCacheSize == 20
IntfCacheSize == 100

-----------------------------------------------------------------------------
(* Strings and paths *)

\* the path "a" and the root path ""
HotPath == << <<97>> >>
RootPath == << <<>> >>

\* the k-th fresh path: the three-digit decimal string of k
FreshPath(k) ==
    << <<48 + ((k \div 100) % 10), 48 + ((k \div 10) % 10), 48 + (k % 10)>> >>

\* values assigned to configuration properties: "Lab", "sw.x"
LabName == <<76, 97, 98>>
HostName == <<115, 119, 46, 120>>
PropVals == { LabName, HostName }

\* s.split(".")[0]: the characters before the first "."
RECURSIVE FirstSegment(_)
FirstSegment(s) ==
    IF s = <<>> \/ Head(s) = 46 THEN <<>>
    ELSE <<Head(s)>> \o FirstSegment(Tail(s))

\* s.lower(), on ASCII
Lower(s) == [i \in 1..Len(s) |-> IF s[i] >= 65 /\ s[i] <= 90 THEN s[i] + 32 ELSE s[i]]

\* the character class [a-z0-9-_]
InClass(ch) ==
    \/ ch >= 97 /\ ch <= 122
    \/ ch >= 48 /\ ch <= 57
    \/ ch = 45
    \/ ch = 95

\* re.sub(r"[^a-z0-9-_]+", "-", s): every maximal run of characters outside
\* the class becomes one "-"
RECURSIVE ReSub(_)
ReSub(s) ==
    IF s = <<>> THEN <<>>
    ELSE IF InClass(Head(s)) THEN <<Head(s)>> \o ReSub(Tail(s))
    ELSE IF Len(s) > 1 /\ ~InClass(s[2]) THEN ReSub(Tail(s))
    ELSE <<45>> \o ReSub(Tail(s))

\* a slug without the hyphen a trailing run of other characters leaves
Slug_trimmed(name) ==
    LET s == ReSub(Lower(FirstSegment(name)))
    IN  IF s # <<>> /\ s[Len(s)] = 45 THEN SubSeq(s, 1, Len(s) - 1) ELSE s

\* the slug that save() derives for a new container or switch
Slug(name) == ReSub(Lower(FirstSegment(name)))

-----------------------------------------------------------------------------
(* cachetools.LRUCache, as a sequence of [key, obj] entries, least recently *)
(* used first                                                               *)

LRUKeys(c) == { c[i].key : i \in 1..Len(c) }

\* key in cache: does not touch the order
LRUContains(c, k) == k \in LRUKeys(c)

LRUIndex(c, k) == CHOOSE i \in 1..Len(c) : c[i].key = k

SeqRemove(s, i) == SubSeq(s, 1, i - 1) \o SubSeq(s, i + 1, Len(s))

\* a cache whose reads do not refresh the recency of the key
LRUGetItem_no_refresh(c, k) == [cache |-> c, value |-> c[LRUIndex(c, k)].obj]

\* cache[key]: returns the value and marks the key most recently used
LRUGetItem(c, k) ==
    LET i == LRUIndex(c, k)
    IN  [cache |-> Append(SeqRemove(c, i), c[i]), value |-> c[i].obj]

\* popitem(): removes the least recently used entry
LRUPopItem(c) == Tail(c)

RECURSIVE LRUMakeRoom(_, _)
LRUMakeRoom(c, maxsize) ==
    IF Len(c) + 1 > maxsize THEN LRUMakeRoom(LRUPopItem(c), maxsize) ELSE c

\* cache[key] = value: evicts while the cache is full, then stores the entry
\* as the most recently used one
LRUSetItem(c, k, v, maxsize) ==
    IF LRUContains(c, k)
    THEN Append(SeqRemove(c, LRUIndex(c, k)), [key |-> k, obj |-> v])
    ELSE Append(LRUMakeRoom(c, maxsize), [key |-> k, obj |-> v])

-----------------------------------------------------------------------------
(* Proxy objects *)

NoIndex == 0 - 1

\* blob is None until a response body is memoized; src names the request
\* whose body it is and ver the server snapshot it carries
NoBlob == [src |-> "None", ver |-> 0]

\* a constructor that fetches the snapshot eagerly
ContainerInit_fetching(path, new) ==
    [cls |-> "Container", path |-> path, index |-> NoIndex, new |-> new,
     changes |-> {}, blob |-> [src |-> "/containers", ver |-> 1]]

\* Container.__init__
ContainerInit(path, new) ==
    [cls |-> "Container", path |-> path, index |-> NoIndex, new |-> new,
     changes |-> {}, blob |-> NoBlob]

\* Switch.__init__
SwitchInit(path, new) ==
    [cls |-> "Switch", path |-> path, index |-> NoIndex, new |-> new,
     changes |-> {}, blob |-> NoBlob]

\* Interface.__init__
InterfaceInit(path, index) ==
    [cls |-> "Interface", path |-> path, index |-> index, new |-> FALSE,
     changes |-> {}, blob |-> NoBlob]

\* The identity of a newly constructed object: any identity no live object
\* has.  Identities carry the class and the key the object was made for.
NewId(h, cls, key) ==
    LET used == { id.n : id \in { x \in DOMAIN h : x.cls = cls /\ x.key = key } }
    IN  [cls |-> cls, key |-> key,
         n |-> CHOOSE n \in 0..Cardinality(used) :
                  n \notin used /\ \A m \in 0..(n - 1) : m \in used]

NoObj == [cls |-> "None", key |-> <<>>, n |-> 0]

-----------------------------------------------------------------------------
(* The client's caches and heap as one value, so that a call that makes    *)
(* several lookups can thread it through them.  evs collects one event per *)
(* lookup.                                                                  *)

World ==
    [cont |-> cont_cache, sw |-> sw_cache, intf |-> intf_cache, heap |-> heap,
     recency |-> recency, lost |-> lost, evs |-> <<>>]

\* The pattern shared by Client.switch, Client.interface and Client.container:
\*     if key not in cache: cache[key] = Proxy(...)
\*     return cache[key]
\* together with the bookkeeping of the lookup event.
CacheLookup(w, c, key, proxy, maxsize) ==
    LET cache == w[c]
        present == LRUContains(cache, key)
        id == NewId(w.heap, proxy.cls, key)
        stored == IF present THEN cache ELSE LRUSetItem(cache, key, id, maxsize)
        got == LRUGetItem(stored, key)
        evicted == { cache[i] : i \in 1..Len(cache) } \
                       { got.cache[i] : i \in 1..Len(got.cache) }
        evictedKeys == { e.key : e \in evicted }
        rec == w.recency[c]
        known == { rec[i] : i \in 1..Len(rec) }
        prev == { e.obj : e \in { x \in known : x.key = key } }
        keep == SelectSeq(rec, LAMBDA e : e.key \notin evictedKeys /\ e.key # key)
        newheap == IF present THEN w.heap ELSE (id :> proxy) @@ w.heap
        dirty == { [cache |-> c, key |-> e.key] :
                     e \in { x \in evicted : w.heap[x.obj].changes # {} } }
        ev == [cache |-> c, key |-> key, obj |-> got.value, created |-> ~present,
               prev |-> prev, evicted |-> evictedKeys,
               full |-> Len(cache) >= maxsize,
               isNew |-> key \notin { e.key : e \in known },
               oldest |-> IF rec = <<>> THEN {} ELSE {Head(rec).key},
               wasLost |-> [cache |-> c, key |-> key] \in w.lost,
               lostNow |-> dirty # {}]
    IN  [w EXCEPT ![c] = got.cache,
                  !.heap = newheap,
                  !.recency[c] = Append(keep, [key |-> key, obj |-> got.value]),
                  !.lost = (w.lost \ {[cache |-> c, key |-> key]}) \cup dirty,
                  !.evs = Append(w.evs, ev)]

\* the object the last lookup of w returned
Returned(w) == w.evs[Len(w.evs)].obj

\* Client.switch
switch(w, path) == CacheLookup(w, "sw", path, SwitchInit(path, FALSE), SwCacheSize)

\* a lookup that stores a new proxy without testing for the key first
container_always_constructs(w, path) ==
    CacheLookup([w EXCEPT !.cont = SelectSeq(w.cont, LAMBDA e : e.key # path)],
                "cont", path, ContainerInit(path, FALSE), ContCacheSize)

\* Client.container
container(w, path) ==
    CacheLookup(w, "cont", path, ContainerInit(path, FALSE), ContCacheSize)

\* a lookup of an interface that leaves the switch cache alone
interface_without_switch(w, path, index) ==
    CacheLookup(w, "intf", <<path, index>>, InterfaceInit(path, index), IntfCacheSize)

\* Client.interface: looks the switch up first, then the interface
interface(w, path, index) ==
    CacheLookup(switch(w, path), "intf", <<path, index>>,
                InterfaceInit(path, index), IntfCacheSize)

\* the objects a cache refers to
CacheObjs(c) == { c[i].obj : i \in 1..Len(c) }

\* Objects stay alive while a cache or the caller refers to them.
Live(w, h) == CacheObjs(w.cont) \cup CacheObjs(w.sw) \cup CacheObjs(w.intf) \cup h

Collect(w, h) == [id \in Live(w, h) \cap DOMAIN w.heap |-> w.heap[id]]

-----------------------------------------------------------------------------
(* Calls and their results *)

\* a value a call returned: where it came from and what it is
NoVal == [from |-> "None", value |-> 0]

Get(ep, path, index) == [method |-> "GET", ep |-> ep, path |-> path, index |-> index]

\* the record of a finished call: its lookups, the HTTP requests it sent, the
\* exception it raised ("None" when it returned) and the proxy it worked on
Ret(op, evs, http, err, obj) ==
    [op |-> op, evs |-> evs, http |-> http, err |-> err, obj |-> obj, val |-> NoVal]

\* fresh keys the workload has looked up one by one; a long listing of a
\* cache of maxsize entries names maxsize - 1 fresh keys
Singles(maxsize) == nfresh - nbulk * (maxsize - 1)

\* the fresh keys nfresh + 1 .. nfresh + n, as paths
FreshPaths(n) == [i \in 1..n |-> FreshPath(nfresh + i)]

\* p = client.container(...): the caller assigns the returned reference to its
\* variable, which lets go of the reference it held, or does not keep it
Keep(keep, obj) == IF keep THEN {obj} ELSE held

\* the state after a call that went through the caches
Commit(w, h) ==
    /\ cont_cache' = w.cont
    /\ sw_cache' = w.sw
    /\ intf_cache' = w.intf
    /\ recency' = w.recency
    /\ lost' = w.lost
    /\ held' = h
    /\ heap' = Collect(w, h)

\* client.container(path)
CallContainer(path, fresh, keep) ==
    LET w == container(World, path)
    IN  /\ Commit(w, Keep(keep, Returned(w)))
        /\ nfresh' = IF fresh THEN nfresh + 1 ELSE nfresh
        /\ ret' = Ret("container", w.evs, <<>>, "None", Returned(w))
        /\ UNCHANGED <<focus, nbulk, wsVars>>

\* client.switch(path)
CallSwitch(path, fresh, keep) ==
    LET w == switch(World, path)
    IN  /\ Commit(w, Keep(keep, Returned(w)))
        /\ nfresh' = IF fresh THEN nfresh + 1 ELSE nfresh
        /\ ret' = Ret("switch", w.evs, <<>>, "None", Returned(w))
        /\ UNCHANGED <<focus, nbulk, wsVars>>

\* client.interface(path, index)
CallInterface(path, index, fresh, keep) ==
    LET w == interface(World, path, index)
    IN  /\ Commit(w, Keep(keep, Returned(w)))
        /\ nfresh' = IF fresh THEN nfresh + 1 ELSE nfresh
        /\ ret' = Ret("interface", w.evs, <<>>, "None", Returned(w))
        /\ UNCHANGED <<focus, nbulk, wsVars>>

\* the caller lets go of a reference
Drop(o) ==
    /\ o \in held
    /\ held' = held \ {o}
    /\ heap' = Collect(World, held \ {o})
    /\ ret' = Ret("drop", <<>>, <<>>, "None", o)
    /\ UNCHANGED <<focus, cont_cache, sw_cache, intf_cache, nfresh, nbulk, recency, lost,
                   wsVars>>

-----------------------------------------------------------------------------
(* Configuration properties of Container and Switch *)

HasChange(p, name) == \E c \in p.changes : c[1] = name
Change(p, name) == (CHOOSE c \in p.changes : c[1] = name)[2]

\* the outcome of a property access: the proxy afterwards, the requests sent,
\* the exception raised and the value returned
Outcome(p, http, err, val) == [proxy |-> p, http |-> http, err |-> err, val |-> val]

\* a getter that looks at the memoized snapshot before the pending changes
Container_getprop_blob_first(p, name, resp) ==
    IF p.blob # NoBlob
    THEN Outcome(p, <<>>, "None", [from |-> p.blob.src, value |-> p.blob.ver])
    ELSE IF HasChange(p, name)
    THEN Outcome(p, <<>>, "None", [from |-> "changes", value |-> Change(p, name)])
    ELSE IF resp.status = 200
    THEN Outcome([p EXCEPT !.blob = [src |-> "/containers", ver |-> resp.ver]],
                 <<Get("/containers", p.path, NoIndex)>>, "None",
                 [from |-> "/containers", value |-> resp.ver])
    ELSE Outcome(p, <<Get("/containers", p.path, NoIndex)>>, "NameError", NoVal)

\* Container._getprop; resp is the response a GET would receive.  objects.py
\* never imports APIException, so the raise statement fails with NameError.
Container_getprop(p, name, resp) ==
    IF HasChange(p, name)
    THEN Outcome(p, <<>>, "None", [from |-> "changes", value |-> Change(p, name)])
    ELSE IF p.blob # NoBlob
    THEN Outcome(p, <<>>, "None", [from |-> p.blob.src, value |-> p.blob.ver])
    ELSE IF resp.status = 200
    THEN Outcome([p EXCEPT !.blob = [src |-> "/containers", ver |-> resp.ver]],
                 <<Get("/containers", p.path, NoIndex)>>, "None",
                 [from |-> "/containers", value |-> resp.ver])
    ELSE Outcome(p, <<Get("/containers", p.path, NoIndex)>>, "NameError", NoVal)

\* Switch._getprop
Switch_getprop(p, name, resp) ==
    IF HasChange(p, name)
    THEN Outcome(p, <<>>, "None", [from |-> "changes", value |-> Change(p, name)])
    ELSE IF p.new
    THEN Outcome(p, <<>>, "None", NoVal)
    ELSE IF p.blob # NoBlob
    THEN Outcome(p, <<>>, "None", [from |-> p.blob.src, value |-> p.blob.ver])
    ELSE IF resp.status = 200
    THEN Outcome([p EXCEPT !.blob = [src |-> "/switches", ver |-> resp.ver]],
                 <<Get("/switches", p.path, NoIndex)>>, "None",
                 [from |-> "/switches", value |-> resp.ver])
    ELSE Outcome(p, <<Get("/switches", p.path, NoIndex)>>, "NameError", NoVal)

\* Switch._getdataprop: it tests and assigns the same self.__blob as
\* Switch._getprop, so whichever body was memoized first answers both
Switch_getdataprop(p, name, resp) ==
    IF HasChange(p, name)
    THEN Outcome(p, <<>>, "None", [from |-> "changes", value |-> Change(p, name)])
    ELSE IF p.new
    THEN Outcome(p, <<>>, "None", NoVal)
    ELSE IF p.blob # NoBlob
    THEN Outcome(p, <<>>, "None", [from |-> p.blob.src, value |-> p.blob.ver])
    ELSE IF resp.status = 200
    THEN Outcome([p EXCEPT !.blob = [src |-> "/switches/{path}/data", ver |-> resp.ver]],
                 <<Get("/switches/{path}/data", p.path, NoIndex)>>, "None",
                 [from |-> "/switches/{path}/data", value |-> resp.ver])
    ELSE Outcome(p, <<Get("/switches/{path}/data", p.path, NoIndex)>>, "NameError", NoVal)

\* Container._setprop and Switch._setprop: self.__changes[name] = val
Proxy_setprop(p, name, val) ==
    [p EXCEPT !.changes = { c \in p.changes : c[1] # name } \cup {<<name, val>>}]

\* reading a configuration property of a proxy the caller holds
GetProp(o, name, resp) ==
    /\ o \in held
    /\ heap[o].cls \in {"Container", "Switch"}
    /\ LET out == IF heap[o].cls = "Container"
                  THEN Container_getprop(heap[o], name, resp)
                  ELSE Switch_getprop(heap[o], name, resp)
       IN  /\ heap' = [heap EXCEPT ![o] = out.proxy]
           /\ ret' = [Ret("getprop", <<>>, out.http, out.err, o) EXCEPT !.val = out.val]
    /\ UNCHANGED <<focus, cont_cache, sw_cache, intf_cache, held, nfresh, nbulk,
                   recency, lost, wsVars>>

\* reading a data property of a switch the caller holds
GetDataProp(o, name, resp) ==
    /\ o \in held
    /\ heap[o].cls = "Switch"
    /\ LET out == Switch_getdataprop(heap[o], name, resp)
       IN  /\ heap' = [heap EXCEPT ![o] = out.proxy]
           /\ ret' = [Ret("getdataprop", <<>>, out.http, out.err, o) EXCEPT
                         !.val = out.val]
    /\ UNCHANGED <<focus, cont_cache, sw_cache, intf_cache, held, nfresh, nbulk,
                   recency, lost, wsVars>>

\* assigning a configuration property of a proxy the caller holds
SetProp(o, name, val) ==
    /\ o \in held
    /\ heap[o].cls \in {"Container", "Switch"}
    /\ heap' = [heap EXCEPT ![o] = Proxy_setprop(heap[o], name, val)]
    /\ ret' = Ret("setprop", <<>>, <<>>, "None", o)
    /\ UNCHANGED <<focus, cont_cache, sw_cache, intf_cache, held, nfresh, nbulk,
                   recency, lost, wsVars>>

-----------------------------------------------------------------------------
(* Creating and saving *)

Post(ep, path) == [method |-> "POST", ep |-> ep, path |-> path, index |-> NoIndex]

\* Container.new_container
new_container(p) == ContainerInit(p.path, TRUE)

\* Container.new_switch
new_switch(p) == SwitchInit(p.path, TRUE)

\* n = p.new_container() or n = p.new_switch(): the caller keeps p and n
NewChild(o, cls) ==
    /\ o \in held
    /\ heap[o].cls = "Container"
    /\ LET child == IF cls = "Container" THEN new_container(heap[o])
                    ELSE new_switch(heap[o])
           id == NewId(heap, cls, heap[o].path)
           w == [World EXCEPT !.heap = (id :> child) @@ heap]
       IN  /\ held' = {o, id}
           /\ heap' = Collect(w, {o, id})
           /\ ret' = Ret("new", <<>>, <<>>, "None", id)
    /\ UNCHANGED <<focus, cont_cache, sw_cache, intf_cache, nfresh, nbulk, recency,
                   lost, wsVars>>

\* a save whose 201 and 303 branches leave the memoized snapshot in place
Container_save_keeps_blob(p, resp) ==
    LET path == IF p.new THEN Append(p.path, Slug(Change(p, "display_name")))
                ELSE p.path
        req == <<Post("/containers", path)>>
    IN  IF p.new /\ ~HasChange(p, "display_name")
        THEN Outcome(p, <<>>, "Exception", NoVal)
        ELSE IF resp.status \in {201, 303}
        THEN Outcome([p EXCEPT !.changes = {}, !.path = path], req, "None", NoVal)
        ELSE IF resp.status = 200
        THEN Outcome([p EXCEPT !.blob = [src |-> "POST", ver |-> resp.ver],
                               !.changes = {}, !.path = path],
                     req, "None", NoVal)
        ELSE Outcome(p, req, "NameError", NoVal)

\* Container.save; resp is the response the POST would receive.  Unlike
\* Switch.save, neither success branch assigns self.__new.
Container_save(p, resp) ==
    LET path == IF p.new THEN Append(p.path, Slug(Change(p, "display_name")))
                ELSE p.path
        req == <<Post("/containers", path)>>
    IN  IF p.new /\ ~HasChange(p, "display_name")
        THEN Outcome(p, <<>>, "Exception", NoVal)
        ELSE IF resp.status \in {201, 303}
        THEN Outcome([p EXCEPT !.blob = NoBlob, !.changes = {}, !.path = path],
                     req, "None", NoVal)
        ELSE IF resp.status = 200
        THEN Outcome([p EXCEPT !.blob = [src |-> "POST", ver |-> resp.ver],
                               !.changes = {}, !.path = path],
                     req, "None", NoVal)
        ELSE Outcome(p, req, "NameError", NoVal)

\* Switch.save
Switch_save(p, resp) ==
    LET path == IF p.new THEN Append(p.path, Slug(Change(p, "hostname")))
                ELSE p.path
        req == <<Post("/switches", path)>>
    IN  IF p.new /\ ~HasChange(p, "hostname")
        THEN Outcome(p, <<>>, "Exception", NoVal)
        ELSE IF resp.status \in {201, 303}
        THEN Outcome([p EXCEPT !.blob = NoBlob, !.path = path, !.changes = {},
                               !.new = FALSE],
                     req, "None", NoVal)
        ELSE IF resp.status = 200
        THEN Outcome([p EXCEPT !.blob = [src |-> "POST", ver |-> resp.ver],
                               !.path = path, !.changes = {}, !.new = FALSE],
                     req, "None", NoVal)
        ELSE Outcome(p, req, "NameError", NoVal)

\* the property a new proxy of that class derives its slug from
NameKey(cls) == IF cls = "Container" THEN "display_name" ELSE "hostname"

\* what the caller of save() observes: the requests sent, the exception
\* raised, and the status the POST was answered with (0: no POST was sent)
SaveRet(o, out, resp) ==
    [op |-> "save", evs |-> <<>>, http |-> out.http, err |-> out.err, obj |-> o,
     val |-> NoVal, status |-> IF out.http = <<>> THEN 0 ELSE resp.status]

\* o.save() on a proxy the caller holds; paths grow no deeper than MaxDepth
Save(o, resp) ==
    /\ o \in held
    /\ heap[o].cls \in {"Container", "Switch"}
    /\ (heap[o].new /\ HasChange(heap[o], NameKey(heap[o].cls)))
          => Len(heap[o].path) < MaxDepth
    /\ LET out == IF heap[o].cls = "Container"
                  THEN Container_save(heap[o], resp)
                  ELSE Switch_save(heap[o], resp)
       IN  /\ heap' = [heap EXCEPT ![o] = out.proxy]
           /\ ret' = SaveRet(o, out, resp)
    /\ UNCHANGED <<focus, cont_cache, sw_cache, intf_cache, held, nfresh, nbulk,
                   recency, lost, wsVars>>

-----------------------------------------------------------------------------
(* Poller status of a switch, and deleting a container *)

\* GET /switches/{path}/status
GetStatus(path) ==
    [method |-> "GET", ep |-> "/switches/{path}/status", path |-> path,
     index |-> NoIndex]

\* TimedValue(src = st['status']): the value and the time of the entry
StatusValue(resp) == [from |-> "/status", value |-> resp.state, time |-> resp.stime]

\* TimedValue(value = (done, size), time = st['progress']['time'])
ProgressValue(resp) ==
    [from |-> "/status", value |-> <<resp.done, resp.size>>, time |-> resp.ptime]

\* a status that is answered from the memoized snapshot when there is one
Switch_status_from_blob(p, resp) ==
    IF p.new THEN Outcome(p, <<>>, "None", NoVal)
    ELSE IF p.blob # NoBlob
    THEN Outcome(p, <<>>, "None", [from |-> p.blob.src, value |-> "ok", time |-> 0])
    ELSE IF resp.status = 200
    THEN Outcome(p, <<GetStatus(p.path)>>, "None", StatusValue(resp))
    ELSE Outcome(p, <<GetStatus(p.path)>>, "NameError", NoVal)

\* Switch.status; resp is the response the GET would receive
Switch_status(p, resp) ==
    IF p.new THEN Outcome(p, <<>>, "None", NoVal)
    ELSE IF resp.status = 200
    THEN Outcome(p, <<GetStatus(p.path)>>, "None", StatusValue(resp))
    ELSE Outcome(p, <<GetStatus(p.path)>>, "NameError", NoVal)

\* Switch.progress
Switch_progress(p, resp) ==
    IF p.new THEN Outcome(p, <<>>, "None", NoVal)
    ELSE IF resp.status = 200
    THEN Outcome(p, <<GetStatus(p.path)>>, "None", ProgressValue(resp))
    ELSE Outcome(p, <<GetStatus(p.path)>>, "NameError", NoVal)

\* what the caller of status or progress observes, with the response the
\* service had ready for a GET
StatusRet(op, o, out, resp) ==
    [op |-> op, evs |-> <<>>, http |-> out.http, err |-> out.err, obj |-> o,
     val |-> out.val, resp |-> resp]

\* o.status on a switch the caller holds
Status(o, resp) ==
    /\ o \in held
    /\ heap[o].cls = "Switch"
    /\ LET out == Switch_status(heap[o], resp)
       IN  /\ heap' = [heap EXCEPT ![o] = out.proxy]
           /\ ret' = StatusRet("status", o, out, resp)
    /\ UNCHANGED <<focus, cont_cache, sw_cache, intf_cache, held, nfresh, nbulk,
                   recency, lost, wsVars>>

\* o.progress on a switch the caller holds
ReadSwitchProgress(o, resp) ==
    /\ o \in held
    /\ heap[o].cls = "Switch"
    /\ LET out == Switch_progress(heap[o], resp)
       IN  /\ heap' = [heap EXCEPT ![o] = out.proxy]
           /\ ret' = StatusRet("progress", o, out, resp)
    /\ UNCHANGED <<focus, cont_cache, sw_cache, intf_cache, held, nfresh, nbulk,
                   recency, lost, wsVars>>

Delete(ep, path) == [method |-> "DELETE", ep |-> ep, path |-> path, index |-> NoIndex]

\* Container.delete; kids tells whether the service has children under the
\* container, resp is the response a DELETE would receive.  The first
\* statement evaluates self.__children, an attribute that neither
\* Container.__init__ nor any other method assigns, so the call ends there with
\* AttributeError whatever kids and resp are.
Container_delete(p, resp, kids) == Outcome(p, <<>>, "AttributeError", NoVal)

\* o.delete() on a container the caller holds
DeleteContainer(o, resp, kids) ==
    /\ o \in held
    /\ heap[o].cls = "Container"
    /\ LET out == Container_delete(heap[o], resp, kids)
       IN  /\ heap' = [heap EXCEPT ![o] = out.proxy]
           /\ ret' = [op |-> "delete", evs |-> <<>>, http |-> out.http,
                      err |-> out.err, obj |-> o, val |-> out.val, kids |-> kids,
                      status |-> resp.status]
    /\ UNCHANGED <<focus, cont_cache, sw_cache, intf_cache, held, nfresh, nbulk,
                   recency, lost, wsVars>>

-----------------------------------------------------------------------------
(* Listings *)

\* one iteration of the loop of Container.children
LookupChild(w, c) ==
    IF c.type = "container" THEN container(w, c.path)
    ELSE IF c.type = "switch" THEN switch(w, c.path)
    ELSE w

RECURSIVE LookupChildrenRange(_, _, _, _)
\* the iterations lo..hi of that loop, in order (split in halves to keep the
\* evaluation shallow)
LookupChildrenRange(w, children, lo, hi) ==
    IF lo > hi THEN w
    ELSE IF lo = hi THEN LookupChild(w, children[lo])
    ELSE LET mid == (lo + hi) \div 2
             w2 == LookupChildrenRange(w, children, lo, mid)
         IN  IF Len(w2.evs) >= 0
             THEN LookupChildrenRange(w2, children, mid + 1, hi) ELSE w2

\* the loop of Container.children over the "children" array of the response
LookupChildren(w, children) == LookupChildrenRange(w, children, 1, Len(children))

\* container.children, answered with resp, which names nf fresh paths
Children(o, resp, nf) ==
    /\ o \in held
    /\ heap[o].cls = "Container"
    /\ LET req == <<Get("/containers/children", heap[o].path, NoIndex)>>
           w == LookupChildren(World, resp.children)
       IN  IF resp.status = 200
           THEN /\ Commit(w, held)
                /\ ret' = Ret("children", w.evs, req, "None", o)
           ELSE /\ ret' = Ret("children", <<>>, req, "NameError", o)
                /\ UNCHANGED <<cont_cache, sw_cache, intf_cache, heap, held, recency, lost>>
    /\ nfresh' = nfresh + nf
    /\ nbulk' = IF nf > 0 THEN nbulk + 1 ELSE nbulk
    /\ UNCHANGED <<focus, wsVars>>

RECURSIVE LookupInterfacesRange(_, _, _, _, _)
\* the elements lo..hi of the comprehension of Switch.interfaces, in order
LookupInterfacesRange(w, path, indexes, lo, hi) ==
    IF lo > hi THEN w
    ELSE IF lo = hi THEN interface(w, path, indexes[lo])
    ELSE LET mid == (lo + hi) \div 2
             w2 == LookupInterfacesRange(w, path, indexes, lo, mid)
         IN  IF Len(w2.evs) >= 0
             THEN LookupInterfacesRange(w2, path, indexes, mid + 1, hi) ELSE w2

\* the comprehension of Switch.interfaces over the "interfaces" array
LookupInterfaces(w, path, indexes) ==
    LookupInterfacesRange(w, path, indexes, 1, Len(indexes))

\* switch.interfaces, answered with resp, which names nf fresh indexes
Interfaces(o, resp, nf) ==
    /\ o \in held
    /\ heap[o].cls = "Switch"
    /\ LET req == <<Get("/switches/interfaces", heap[o].path, NoIndex)>>
           w == LookupInterfaces(World, heap[o].path, resp.indexes)
       IN  IF heap[o].new
           THEN /\ ret' = Ret("interfaces", <<>>, <<>>, "None", o)
                /\ UNCHANGED <<cont_cache, sw_cache, intf_cache, heap, held, recency, lost>>
           ELSE IF resp.status = 200
           THEN /\ Commit(w, held)
                /\ ret' = Ret("interfaces", w.evs, req, "None", o)
           ELSE /\ ret' = Ret("interfaces", <<>>, req, "NameError", o)
                /\ UNCHANGED <<cont_cache, sw_cache, intf_cache, heap, held, recency, lost>>
    /\ nfresh' = nfresh + nf
    /\ nbulk' = IF nf > 0 THEN nbulk + 1 ELSE nbulk
    /\ UNCHANGED <<focus, wsVars>>

-----------------------------------------------------------------------------
(* The streamed request protocol: Client._ws_request, Client.stats and     *)
(* Client.write                                                             *)

\* what recv() returns for a keepalive: None or ""
EmptyFrame == [cookie |-> 0, type |-> "empty", status |-> "none", reason |-> "none"]

\* the frames a server may send for the request with correlation ID c: a
\* partial reply and the replies with status ok, error (with and without a
\* reason) and a status the client does not know
FramesFor(c) ==
    { [cookie |-> c, type |-> "partial_reply", status |-> "none", reason |-> "none"],
      [cookie |-> c, type |-> "reply", status |-> "ok", reason |-> "none"],
      [cookie |-> c, type |-> "reply", status |-> "error", reason |-> "denied"],
      [cookie |-> c, type |-> "reply", status |-> "error", reason |-> "none"],
      [cookie |-> c, type |-> "reply", status |-> "busy", reason |-> "none"] }

\* WriteProgress({"empty": True}), the progress write() makes up for an empty
\* queue; the dict it wraps is EmptyDic
EmptyProgress == [cookie |-> 0, type |-> "empty_queue", status |-> "none", reason |-> "none"]

NoErr == [kind |-> "None", msg |-> "none", frame |-> EmptyFrame]

\* a counter that is read and never incremented
NextCookie_same(c) == c

\* self._ws_cookie += 1
NextCookie(c) == c + 1

\* a test that flags only the frames of later requests
CookieMismatch_newer(frame, cookie) == frame.cookie > cookie

\* a receive loop without the cookie test
CookieMismatch_never(frame, cookie) == FALSE

\* reply['cookie'] != cookie
CookieMismatch(frame, cookie) == frame.cookie # cookie

\* a receive loop that does not look at the status 'error'
IsError_never(frame) == FALSE

\* reply['type'] == 'reply' and reply['status'] == 'error'
IsError(frame) == frame.type = "reply" /\ frame.status = "error"

\* a receive loop that does not look for partial replies
IsPartial_never(frame) == FALSE

\* reply['type'] == 'partial_reply'
IsPartial(frame) == frame.type = "partial_reply"

\* One pass of the receive loop of _ws_request over the frame recv() returned:
\* what the generator does with it.  "continue" reads the next frame, "yield"
\* hands the frame to the caller and reads on when resumed, "yield_break"
\* hands it over and ends when resumed, "raise" fails.
Dispatch(frame, cookie) ==
    IF frame = EmptyFrame
    THEN [act |-> "continue", err |-> NoErr]
    ELSE IF CookieMismatch(frame, cookie)
    THEN [act |-> "raise",
          err |-> [kind |-> "Exception", msg |-> "Cookie mismatch", frame |-> EmptyFrame]]
    ELSE IF IsError(frame)
    THEN [act |-> "raise",
          err |-> IF frame.reason # "none"
                  THEN [kind |-> "Exception", msg |-> frame.reason, frame |-> EmptyFrame]
                  ELSE [kind |-> "Exception", msg |-> "str(reply)", frame |-> frame]]
    ELSE IF frame.type = "reply" /\ frame.status = "ok"
    THEN [act |-> "yield_break", err |-> NoErr]
    ELSE IF IsPartial(frame)
    THEN [act |-> "yield", err |-> NoErr]
    ELSE [act |-> "continue", err |-> NoErr]

-----------------------------------------------------------------------------
(* MachAuthToken: the memoized session cookie and the handshake with        *)
(* api.uqcloud.net that produces it                                         *)

\* handshake POSTs one credential object sends in a run
MaxPosts == 3

\* self._cookie = None; posts counts the handshake POSTs sent so far, ok those
\* that were answered 200 with a cookie, client says a Client was made with it
NoAuth == [cookie |-> "None", posts |-> 0, ok |-> 0, client |-> FALSE]

\* what the machauth endpoint may answer: a cookie, an empty cookie, a body
\* without a cookie, or an error status
HandshakeResponses ==
    { [status |-> 200, cookie |-> "abc123", text |-> "{...}"],
      [status |-> 200, cookie |-> "def456", text |-> "{...}"],
      [status |-> 200, cookie |-> "", text |-> "{...}"],
      [status |-> 200, cookie |-> "absent", text |-> "{}"],
      [status |-> 403, cookie |-> "absent", text |-> "denied"],
      [status |-> 500, cookie |-> "absent", text |-> "oops"] }

\* if self._cookie: the truth value of None and of '' is False
Truthy(c) == c \notin {"None", ""}

NoAuthErr == [kind |-> "None", code |-> 0, text |-> ""]

\* a handshake that keeps the body of a failed answer as the cookie
get_cookie_memoizes_failure(a, resp) ==
    IF Truthy(a.cookie)
    THEN [auth |-> a, err |-> NoAuthErr, val |-> a.cookie, posts |-> 0]
    ELSE IF resp.status = 200 /\ resp.cookie # "absent"
    THEN [auth |-> [a EXCEPT !.cookie = resp.cookie, !.posts = @ + 1, !.ok = @ + 1],
          err |-> NoAuthErr, val |-> resp.cookie, posts |-> 1]
    ELSE [auth |-> [a EXCEPT !.cookie = resp.text, !.posts = @ + 1],
          err |-> [kind |-> "MachAuthError", code |-> resp.status, text |-> resp.text],
          val |-> "None", posts |-> 1]

\* a handshake on every read
get_cookie_always_posts(a, resp) ==
    IF resp.status = 200 /\ resp.cookie # "absent"
    THEN [auth |-> [a EXCEPT !.cookie = resp.cookie, !.posts = @ + 1, !.ok = @ + 1],
          err |-> NoAuthErr, val |-> resp.cookie, posts |-> 1]
    ELSE [auth |-> [a EXCEPT !.posts = @ + 1],
          err |-> [kind |-> "MachAuthError", code |-> resp.status, text |-> resp.text],
          val |-> "None", posts |-> 1]

\* MachAuthToken.get_cookie; resp is the answer a handshake POST would get.
\* The result: the token afterwards, the exception raised, the value returned
\* and the number of POSTs sent.
get_cookie(a, resp) ==
    IF Truthy(a.cookie)
    THEN [auth |-> a, err |-> NoAuthErr, val |-> a.cookie, posts |-> 0]
    ELSE IF resp.status = 200 /\ resp.cookie # "absent"
    THEN [auth |-> [a EXCEPT !.cookie = resp.cookie, !.posts = @ + 1, !.ok = @ + 1],
          err |-> NoAuthErr, val |-> resp.cookie, posts |-> 1]
    ELSE IF resp.status = 200
    THEN [auth |-> [a EXCEPT !.posts = @ + 1],
          err |-> [kind |-> "KeyError", code |-> 0, text |-> "cookie"],
          val |-> "None", posts |-> 1]
    ELSE [auth |-> [a EXCEPT !.posts = @ + 1],
          err |-> [kind |-> "MachAuthError", code |-> resp.status, text |-> resp.text],
          val |-> "None", posts |-> 1]

\* the record of a call that read the cookie: what it raised, the cookie it
\* got, the handshake answer when one was needed, and the API requests sent
AuthRet(op, out, resp, http) ==
    [op |-> op, err |-> out.err, val |-> out.val, posts |-> out.posts,
     resp |-> IF out.posts = 0 THEN "none" ELSE resp.text, http |-> http]

\* the caller reads token.cookie
ReadCookie(resp) ==
    /\ Truthy(auth.cookie) \/ auth.posts < MaxPosts
    /\ LET out == get_cookie(auth, resp)
       IN  /\ auth' = out.auth
           /\ ret' = AuthRet("cookie", out, resp, <<>>)
    /\ UNCHANGED <<focus, cacheVars, ws_cookie, writespecs, sent, gens, running, budget, wp, tv>>

\* Client(token): the websocket is opened with the cookie
NewClient(resp) ==
    /\ Truthy(auth.cookie) \/ auth.posts < MaxPosts
    /\ LET out == get_cookie(auth, resp)
       IN  /\ auth' = [out.auth EXCEPT !.client = @ \/ out.err = NoAuthErr]
           /\ ret' = AuthRet("init", out, resp, <<>>)
    /\ UNCHANGED <<focus, cacheVars, ws_cookie, writespecs, sent, gens, running, budget, wp, tv>>

\* Client._get, _post, _delete: the cookie is read, then the request goes out
\* with it
Request(method, resp) ==
    /\ auth.client
    /\ Truthy(auth.cookie) \/ auth.posts < MaxPosts
    /\ LET out == get_cookie(auth, resp)
       IN  /\ auth' = out.auth
           /\ ret' = AuthRet(method, out, resp,
                             IF out.err = NoAuthErr
                             THEN <<[method |-> method, cookie |-> out.val]>>
                             ELSE <<>>)
    /\ UNCHANGED <<focus, cacheVars, ws_cookie, writespecs, sent, gens, running, budget, wp, tv>>

-----------------------------------------------------------------------------
(* WriteProgress: the dict it wraps, and its properties finished, progress *)
(* and percent.  A key is "absent" when the dict does not have it.         *)

\* largest done and size a frame reports
MaxDone == 3
MaxSize == 3

\* no WriteProgress at hand
NoDic == [empty |-> "absent", type |-> "absent", progress |-> [kind |-> "absent"]]

\* {"empty": True}
EmptyDic == [empty |-> "True", type |-> "absent", progress |-> [kind |-> "absent"]]

\* the values of the 'progress' key of a frame: missing, null, or done and size
ProgressFields ==
    { [kind |-> "absent"], [kind |-> "None"] }
        \cup { [kind |-> "dict", done |-> d, size |-> t] :
                  d \in 0..MaxDone, t \in 0..MaxSize }

\* the dicts of the frames _ws_request yields to write(): they have a type,
\* and the server may or may not give them the keys 'empty' and 'progress'
FrameDics ==
    { [empty |-> e, type |-> ty, progress |-> pr] :
         e \in {"absent", "False"}, ty \in {"partial_reply", "reply"},
         pr \in ProgressFields }

\* the result of reading a property: the exception raised, or the value
Raised(err) == [err |-> err, val |-> "none"]
Value(v) == [err |-> "None", val |-> v]

\* WriteProgress.finished
Finished(dic) ==
    IF dic.empty = "absent" THEN Raised("KeyError")
    ELSE IF dic.empty = "True" THEN Value(TRUE)
    ELSE IF dic.type = "absent" THEN Raised("KeyError")
    ELSE IF dic.type = "reply" THEN Value(TRUE)
    ELSE Value(FALSE)

\* WriteProgress.progress
Progress(dic) ==
    IF dic.progress.kind = "absent" THEN Raised("KeyError")
    ELSE IF dic.progress.kind = "None" THEN Raised("Exception")
    ELSE Value(<<dic.progress.done, dic.progress.size>>)

RECURSIVE Gcd(_, _)
Gcd(a, b) == IF b = 0 THEN a ELSE Gcd(b, a % b)

\* a / b of two ints, b # 0: the float that is the quotient, as a fraction
\* in lowest terms
TrueDiv(a, b) ==
    LET g == Gcd(a, b)
    IN  IF a = 0 THEN [num |-> 0, den |-> 1]
        ELSE [num |-> a \div g, den |-> b \div g]

\* WriteProgress.percent
Percent(dic) ==
    LET f == Finished(dic)
        p == Progress(dic)
    IN  IF f.err # "None" THEN f
        ELSE IF f.val THEN Value([num |-> 100, den |-> 1])
        ELSE IF p.err # "None" THEN p
        ELSE IF p.val[2] = 0 THEN Raised("ZeroDivisionError")
        ELSE Value(TrueDiv(100 * p.val[1], p.val[2]))

\* the record of a property read
WpRet(op, res) == [op |-> op, err |-> res.err, val |-> res.val]

\* the caller reads wp.finished, wp.progress, wp.percent
ReadFinished ==
    /\ wp # NoDic
    /\ ret' = WpRet("finished", Finished(wp))
    /\ UNCHANGED <<focus, cacheVars, wsVars>>

ReadProgress ==
    /\ wp # NoDic
    /\ ret' = WpRet("progress", Progress(wp))
    /\ UNCHANGED <<focus, cacheVars, wsVars>>

ReadPercent ==
    /\ wp # NoDic
    /\ ret' = WpRet("percent", Percent(wp))
    /\ UNCHANGED <<focus, cacheVars, wsVars>>

\* the caller takes the next WriteProgress that its write() yields
NextProgress(dic) ==
    /\ wp' = dic
    /\ ret' = WpRet("yield", Value("none"))
    /\ UNCHANGED <<focus, cacheVars, ws_cookie, writespecs, sent, gens, running, budget,
                   auth, tv>>

\* a write() that sends its request whatever the queue holds
EmptyQueue_never(q) == FALSE

\* write(): len(self._writespecs) == 0
EmptyQueue(q) == Len(q) = 0

\* a write() that empties the queue on every frame it is handed
ClearsQueue_always(frame) == TRUE

\* write(): x['type'] == 'reply' and x['status'] == 'ok'
ClearsQueue(frame) == frame.type = "reply" /\ frame.status = "ok"

\* a write() that empties the queue when its request fails
QueueAfter_cleared_on_raise(q, kind, act, frame) ==
    IF kind = "write" /\ act \in {"raise", "yield_break"} THEN <<>> ELSE q

\* self._writespecs after a generator of the given kind has dealt with a
\* frame: only the loop body of write() touches it, and the body runs only
\* for the frames _ws_request yields
QueueAfter(q, kind, act, frame) ==
    IF kind = "write" /\ act \in {"yield", "yield_break"} /\ ClearsQueue(frame)
    THEN <<>> ELSE q

\* The caller's program has one variable for a generator of write(), "w";
\* "stats" is the generator that Client.stats makes and advances once.
\* Assigning a variable again lets go of the generator it referred to.
Slots == {"w", "stats"}

\* a generator object: kind "stats" is the _ws_request('get_stats') of
\* Client.stats, kind "write" the generator of Client.write.  pc is where it
\* stands and out what it has yielded so far.  follows is the correlation ID
\* of the failed write whose generator the caller's variable held before,
\* or 0.
NewGen(kind, commit) ==
    [kind |-> kind, commit |-> commit, pc |-> "created", cookie |-> 0,
     out |-> <<>>, err |-> NoErr, follows |-> 0]

\* a variable that refers to no generator
NoGen == [NewGen("none", FALSE) EXCEPT !.pc = "none"]

\* the record of a step of a streamed call: the generator, the frame recv()
\* returned, where the generator stood and how much it had yielded before
WsRet(op, g, frame, from) ==
    [op |-> op, gen |-> g, frame |-> frame, from |-> from,
     nout |-> Len(gens[g].out), cookie |-> gens[g].cookie, http |-> <<>>]

\* the first lines of _ws_request: take a correlation ID, send the request,
\* enter the receive loop
SendRequest(g, gen, method, args) ==
    /\ gens' = [gens EXCEPT ![g] = [gen EXCEPT !.pc = "recv", !.cookie = ws_cookie]]
    /\ ws_cookie' = NextCookie(ws_cookie)
    /\ sent' = Append(sent, [cookie |-> ws_cookie, method |-> method, args |-> args])
    /\ running' = g

\* a write() that takes its correlation ID and sends its request when it is
\* called
CallWrite_eager(g, commit) ==
    /\ running = "none"
    /\ gens' = [gens EXCEPT ![g] = [NewGen("write", commit) EXCEPT !.cookie = ws_cookie]]
    /\ ws_cookie' = NextCookie(ws_cookie)
    /\ sent' = Append(sent, [cookie |-> ws_cookie, method |-> "write",
                             args |-> [specs |-> writespecs, commit |-> commit]])
    /\ ret' = [WsRet("write", g, EmptyFrame, "none") EXCEPT !.nout = 0, !.cookie = 0]
    /\ UNCHANGED <<focus, cacheVars, writespecs, running, budget, wp, auth, tv>>

\* g = client.write(commit): makes the generator and runs none of its code
CallWrite(g, commit) ==
    /\ running = "none"
    /\ gens' = [gens EXCEPT ![g] =
          [NewGen("write", commit) EXCEPT
              !.follows = IF gens[g].kind = "write" /\ gens[g].pc = "failed"
                          THEN gens[g].cookie ELSE 0]]
    /\ ret' = [WsRet("write", g, EmptyFrame, "none") EXCEPT !.nout = 0, !.cookie = 0]
    /\ UNCHANGED <<focus, cacheVars, ws_cookie, writespecs, sent, running, budget, wp, auth, tv>>

\* client.stats: next(self._ws_request('get_stats')) starts the request; the
\* call returns with the first frame the generator yields
CallStats ==
    /\ running = "none"
    /\ Len(sent) < MaxFrames
    /\ SendRequest("stats", NewGen("stats", FALSE), "get_stats", <<>>)
    /\ ret' = [WsRet("stats", "stats", EmptyFrame, "created") EXCEPT
                  !.nout = 0, !.cookie = ws_cookie]
    /\ UNCHANGED <<focus, cacheVars, writespecs, budget, wp, auth, tv>>

\* next(g) on a generator of write()
Advance(g) ==
    /\ running = "none"
    /\ gens[g].kind = "write"
    /\ gens[g].pc \in {"created", "yielded", "yielded_ok", "yielded_empty"}
    /\ ret' = WsRet("next", g, EmptyFrame, gens[g].pc)
    /\ IF gens[g].pc = "created" /\ EmptyQueue(writespecs)
       THEN /\ gens' = [gens EXCEPT ![g].pc = "yielded_empty",
                                    ![g].out = Append(@, EmptyProgress)]
            /\ UNCHANGED <<ws_cookie, sent, running>>
       ELSE IF gens[g].pc = "created"
       THEN SendRequest(g, gens[g], "write",
                        [specs |-> writespecs, commit |-> gens[g].commit])
       ELSE IF gens[g].pc = "yielded"
       THEN /\ gens' = [gens EXCEPT ![g].pc = "recv"]
            /\ running' = g
            /\ UNCHANGED <<ws_cookie, sent>>
       ELSE /\ gens' = [gens EXCEPT ![g].pc = "done"]
            /\ UNCHANGED <<ws_cookie, sent, running>>
    /\ UNCHANGED <<focus, cacheVars, writespecs, budget, wp, auth, tv>>

\* a write() whose reply ok makes every Interface forget its snapshot
Recv_dropping_blobs(g, frame) ==
    /\ running = g
    /\ budget > 0
    /\ budget' = budget - 1
    /\ LET d == Dispatch(frame, gens[g].cookie)
           gen == gens[g]
       IN  /\ ret' = WsRet("recv", g, frame, "recv")
           /\ gens' = [gens EXCEPT ![g] =
                 IF d.act = "continue" THEN gen
                 ELSE IF d.act = "raise" THEN [gen EXCEPT !.pc = "failed", !.err = d.err]
                 ELSE [gen EXCEPT !.pc = IF d.act = "yield" THEN "yielded" ELSE "yielded_ok",
                                  !.out = Append(@, frame)]]
           /\ running' = IF d.act = "continue" THEN g ELSE "none"
           /\ writespecs' = QueueAfter(writespecs, gens[g].kind, d.act, frame)
           /\ heap' = IF d.act = "yield_break" /\ gens[g].kind = "write"
                      THEN [id \in DOMAIN heap |->
                               IF heap[id].cls = "Interface"
                               THEN [heap[id] EXCEPT !.blob = NoBlob] ELSE heap[id]]
                      ELSE heap
    /\ UNCHANGED <<focus, cont_cache, sw_cache, intf_cache, held, nfresh, nbulk,
                   recency, lost, ws_cookie, sent, wp, auth, tv>>

\* self._ws.recv() returns frame, the next one the server has sent, to the
\* generator blocked in it
Recv(g, frame) ==
    /\ running = g
    /\ budget > 0
    /\ budget' = budget - 1
    /\ LET d == Dispatch(frame, gens[g].cookie)
           gen == gens[g]
       IN  /\ ret' = WsRet("recv", g, frame, "recv")
           /\ gens' = [gens EXCEPT ![g] =
                 IF d.act = "continue" THEN gen
                 ELSE IF d.act = "raise" THEN [gen EXCEPT !.pc = "failed", !.err = d.err]
                 ELSE [gen EXCEPT !.pc = IF d.act = "yield" THEN "yielded" ELSE "yielded_ok",
                                  !.out = Append(@, frame)]]
           /\ running' = IF d.act = "continue" THEN g ELSE "none"
           /\ writespecs' = QueueAfter(writespecs, gens[g].kind, d.act, frame)
    /\ UNCHANGED <<focus, cacheVars, ws_cookie, sent, wp, auth, tv>>

\* the frames that can come next while generator g waits: a keepalive, any
\* frame for its own request, and the frames that the other requests sent on
\* the connection have left unread
Arriving(g) ==
    {EmptyFrame} \cup FramesFor(gens[g].cookie)
        \cup { f \in UNION { FramesFor(sent[i].cookie) : i \in 1..Len(sent) } :
                 f.type \in {"partial_reply", "reply"} /\ f.status \in {"none", "ok"} }

\* a dirty flag that is raised whatever the queue holds
Dirty_always == Len(writespecs) >= 0

\* Client.dirty
Dirty == Len(writespecs) > 0

\* Interface._setprop
Interface_setprop(p, name, val) ==
    [path |-> p.path, attribute |-> name, index |-> p.index, value |-> val]

\* an append that replaces a WriteSpec already queued for the same attribute
\* of the same interface
QueueAppend_coalescing(q, ws) ==
    IF \E i \in 1..Len(q) : q[i].path = ws.path /\ q[i].index = ws.index
                                /\ q[i].attribute = ws.attribute
    THEN [i \in 1..Len(q) |->
             IF q[i].path = ws.path /\ q[i].index = ws.index
                   /\ q[i].attribute = ws.attribute
             THEN ws ELSE q[i]]
    ELSE Append(q, ws)

\* self.__client._writespecs.append(...)
QueueAppend(q, ws) == Append(q, ws)

\* the WriteSpecs queued for attribute name of interface proxy p
QueuedFor(p, name) ==
    { i \in 1..Len(writespecs) :
         /\ writespecs[i].path = p.path
         /\ writespecs[i].index = p.index
         /\ writespecs[i].attribute = name }

\* a getblob that fetches on every call
Interface_getblob_refetch(p, resp) ==
    IF resp.status = 200
    THEN Outcome([p EXCEPT !.blob = [src |-> "/interfaces", ver |-> resp.ver,
                                     names |-> resp.names]],
                 <<Get("/interfaces", p.path, p.index)>>, "None", NoVal)
    ELSE Outcome(p, <<Get("/interfaces", p.path, p.index)>>, "NameError", NoVal)

\* Interface._getblob; resp is the response a GET would receive
Interface_getblob(p, resp) ==
    IF p.blob # NoBlob
    THEN Outcome(p, <<>>, "None", NoVal)
    ELSE IF resp.status = 200
    THEN Outcome([p EXCEPT !.blob = [src |-> "/interfaces", ver |-> resp.ver,
                                     names |-> resp.names]],
                 <<Get("/interfaces", p.path, p.index)>>, "None", NoVal)
    ELSE Outcome(p, <<Get("/interfaces", p.path, p.index)>>, "NameError", NoVal)

\* a getter that prefers the value last queued for the attribute
Interface_getprop_pending(p, name, resp) ==
    LET b == Interface_getblob(p, resp)
        last == CHOOSE i \in QueuedFor(p, name) : \A j \in QueuedFor(p, name) : j <= i
    IN  IF QueuedFor(p, name) # {}
        THEN [b EXCEPT !.val = [from |-> "writespecs", value |-> writespecs[last].value]]
        ELSE b

\* Interface._getprop: the value of the memoized snapshot, or None when the
\* snapshot does not have the attribute
Interface_getprop(p, name, resp) ==
    LET b == Interface_getblob(p, resp)
    IN  IF b.err # "None" THEN b
        ELSE IF name \in b.proxy.blob.names
        THEN [b EXCEPT !.val = [from |-> b.proxy.blob.src, value |-> b.proxy.blob.ver]]
        ELSE b

\* the record of an attribute access on an Interface
IntfRet(op, http, err, obj, name, val) ==
    [op |-> op, evs |-> <<>>, http |-> http, err |-> err, obj |-> obj,
     name |-> name, val |-> val]

\* reading an attribute of an Interface the caller holds
GetIntfProp(o, name, resp) ==
    /\ o \in held
    /\ heap[o].cls = "Interface"
    /\ LET out == Interface_getprop(heap[o], name, resp)
       IN  /\ heap' = [heap EXCEPT ![o] = out.proxy]
           /\ ret' = IntfRet("getattr", out.http, out.err, o, name, out.val)
    /\ UNCHANGED <<focus, cont_cache, sw_cache, intf_cache, held, nfresh, nbulk,
                   recency, lost, wsVars>>

\* assigning a writable attribute of an Interface the caller holds
SetIntfProp(o, name, val) ==
    /\ o \in held
    /\ heap[o].cls = "Interface"
    /\ Len(writespecs) < MaxQueue
    /\ writespecs' = QueueAppend(writespecs, Interface_setprop(heap[o], name, val))
    /\ ret' = IntfRet("setattr", <<>>, "None", o, name, [from |-> "None", value |-> val])
    /\ UNCHANGED <<focus, cacheVars, ws_cookie, sent, gens, running, budget, wp, auth, tv>>

\* client.interface(path, index).<name> = val
AssignInterface(path, index, name, val) ==
    /\ running = "none"
    /\ Len(writespecs) < MaxQueue
    /\ LET w == interface(World, path, index)
       IN  /\ Commit(w, held)
           /\ writespecs' = QueueAppend(writespecs,
                                        Interface_setprop(w.heap[Returned(w)], name, val))
           /\ ret' = Ret("assign", w.evs, <<>>, "None", Returned(w))
    /\ UNCHANGED <<focus, nfresh, nbulk, ws_cookie, sent, gens, running, budget, wp, auth, tv>>

-----------------------------------------------------------------------------
(* TimedValue *)

\* the largest timestamp the workload constructs a TimedValue with
MaxTime == 2

\* Python numbers n and n + 0.5 (half), and None
Num(n, half) == [kind |-> IF half THEN "float" ELSE "int", n |-> n, half |-> half]
NoNum == [kind |-> "None", n |-> 0, half |-> FALSE]

\* int(x): truncation towards zero; int(None) is a TypeError
ToInt(x) ==
    IF x.kind = "None" THEN [err |-> "TypeError", n |-> 0]
    ELSE IF x.half /\ x.n < 0 THEN [err |-> "None", n |-> x.n + 1]
    ELSE [err |-> "None", n |-> x.n]

\* the src argument: None, an empty mapping, or {value: v, time: t}
NoSrc == [kind |-> "None", value |-> "None", time |-> NoNum]
EmptySrc == [kind |-> "empty", value |-> "None", time |-> NoNum]
Src(v, t) == [kind |-> "dict", value |-> v, time |-> t]

\* the object: its __value and __time; no object when __init__ raised
TvObj(value, conv) ==
    IF conv.err # "None" THEN [err |-> conv.err, value |-> "None", time |-> 0]
    ELSE [err |-> "None", value |-> value, time |-> conv.n]

\* a constructor whose src branch takes the time from the time argument
TimedValue_time_from_argument(value, time, src) ==
    IF src.kind = "dict" THEN TvObj(src.value, ToInt(time))
    ELSE TvObj(value, ToInt(time))

\* TimedValue.__init__(value, time, src); the times of the workload are
\* numbers, never datetime objects.  "if src:" takes a non-empty mapping.
TimedValue(value, time, src) ==
    IF src.kind = "dict" THEN TvObj(src.value, ToInt(src.time))
    ELSE TvObj(value, ToInt(time))

\* no TimedValue constructed yet
NoTv == [obj |-> TvObj("None", ToInt(NoNum)), value |-> "None", time |-> NoNum,
         src |-> NoSrc]

TvRet(op, val) ==
    [op |-> op, evs |-> <<>>, http |-> <<>>, err |-> "None", obj |-> NoObj, val |-> val]

\* tv = TimedValue(value, time, src)
Construct(value, time, src) ==
    /\ tv' = [obj |-> TimedValue(value, time, src), value |-> value, time |-> time,
              src |-> src]
    /\ ret' = [TvRet("TimedValue", "None") EXCEPT !.err = tv'.obj.err]
    /\ UNCHANGED <<focus, cacheVars, ws_cookie, writespecs, sent, gens, running, budget,
                   wp, auth>>

\* tv.value, tv.raw_time, tv.time, repr(tv) and str(tv): each reads the
\* attributes and assigns none
ReadTv(op) ==
    /\ tv.obj.err = "None"
    /\ ret' = TvRet(op, IF op \in {"value", "str"} THEN tv.obj.value
                        ELSE IF op = "raw_time" THEN tv.obj.time
                        ELSE IF op = "time" THEN [datetime |-> tv.obj.time]
                        ELSE <<tv.obj.time, tv.obj.value>>)
    /\ UNCHANGED <<focus, cacheVars, wsVars>>

-----------------------------------------------------------------------------
(* Change history *)

\* the longest list of log entries a history response carries
MaxLogs == 2

\* a Change object: its class and what Change.__init__ keeps of the entry
ChangeInit(cls, path, blob) ==
    [err |-> "None", change |-> [cls |-> cls, path |-> path, stamp |-> blob.time]]

NoChange == [cls |-> "None", path |-> <<>>, stamp |-> 0]

\* a from_blob that wraps an entry of an unknown type as a plain Change
from_blob_lenient(path, blob) ==
    IF blob.type = "interface" THEN ChangeInit("InterfaceChange", path, blob)
    ELSE IF blob.type = "switch" THEN ChangeInit("SwitchChange", path, blob)
    ELSE IF blob.type = "interface_write"
    THEN ChangeInit("InterfaceWriteChange", path, blob)
    ELSE IF blob.type = "switch_write" THEN ChangeInit("SwitchWriteChange", path, blob)
    ELSE ChangeInit("Change", path, blob)

\* Change.from_blob
from_blob(path, blob) ==
    IF blob.type = "interface" THEN ChangeInit("InterfaceChange", path, blob)
    ELSE IF blob.type = "switch" THEN ChangeInit("SwitchChange", path, blob)
    ELSE IF blob.type = "interface_write"
    THEN ChangeInit("InterfaceWriteChange", path, blob)
    ELSE IF blob.type = "switch_write" THEN ChangeInit("SwitchWriteChange", path, blob)
    ELSE [err |-> "Exception: Unsupported change type", change |-> NoChange]

RECURSIVE HistoryLoop(_, _, _)
\* for m in r.json()['logs']: changes.append(Change.from_blob(..., m)); an
\* exception leaves the loop and the method, and the list is not returned
HistoryLoop(path, logs, changes) ==
    IF logs = <<>> THEN [err |-> "None", changes |-> changes]
    ELSE LET c == from_blob(path, Head(logs))
         IN  IF c.err # "None" THEN [err |-> c.err, changes |-> <<>>]
             ELSE HistoryLoop(path, Tail(logs), Append(changes, c.change))

\* GET /interfaces/{path}/{index}/history?interface_only=true and
\* GET /switches/{path}/history
GetHistory(p) ==
    IF p.cls = "Interface"
    THEN [method |-> "GET", ep |-> "/interfaces/{path}/{index}/history",
          path |-> p.path, index |-> p.index]
    ELSE [method |-> "GET", ep |-> "/switches/{path}/history", path |-> p.path,
          index |-> NoIndex]

\* Interface.history and Switch.history; resp is the response to the GET
history(p, resp) ==
    IF resp.status = 200
    THEN LET out == HistoryLoop(p.path, resp.logs, <<>>)
         IN  Outcome(p, <<GetHistory(p)>>, out.err, out.changes)
    ELSE Outcome(p, <<GetHistory(p)>>, "NameError", <<>>)

\* o.history on a switch or an interface the caller holds
History(o, resp) ==
    /\ o \in held
    /\ heap[o].cls \in {"Switch", "Interface"}
    /\ LET out == history(heap[o], resp)
       IN  /\ heap' = [heap EXCEPT ![o] = out.proxy]
           /\ ret' = [op |-> "history", evs |-> <<>>, http |-> out.http,
                      err |-> out.err, obj |-> o, val |-> out.val,
                      status |-> resp.status, logs |-> resp.logs]
    /\ UNCHANGED <<focus, cont_cache, sw_cache, intf_cache, held, nfresh, nbulk,
                   recency, lost, wsVars>>

-----------------------------------------------------------------------------
(* MAC address search *)

\* the longest list of interface entries a response carries
MaxEntries == 2

\* a path as Python holds it: the segments joined by "."
RECURSIVE PathString(_)
PathString(path) ==
    IF path = <<>> THEN <<>>
    ELSE IF Len(path) = 1 THEN path[1]
    ELSE path[1] \o <<46>> \o PathString(Tail(path))

\* s < t on strings
RECURSIVE StrLess(_, _)
StrLess(s, t) ==
    IF t = <<>> THEN FALSE
    ELSE IF s = <<>> THEN TRUE
    ELSE IF s[1] # t[1] THEN s[1] < t[1]
    ELSE StrLess(Tail(s), Tail(t))

\* (x['path'], x['index']) < (y['path'], y['index'])
KeyLess(x, y) ==
    \/ StrLess(PathString(x.path), PathString(y.path))
    \/ x.path = y.path /\ x.index < y.index

\* intfs.sort(key = ...): ascending and stable
RECURSIVE SortEntries(_)
SortEntries(es) ==
    IF es = <<>> THEN <<>>
    ELSE LET rest == SortEntries(SubSeq(es, 1, Len(es) - 1))
             x == es[Len(es)]
             before == SelectSeq(rest, LAMBDA y : ~KeyLess(x, y))
             after == SelectSeq(rest, LAMBDA y : KeyLess(x, y))
         IN  before \o <<x>> \o after

\* MACNeighbour(*args): __init__(self, client, intf, stamp, mac) takes four
\* arguments besides self; any other number is a TypeError
MACNeighbour(args) ==
    IF Len(args) = 4
    THEN [err |-> "None", nei |-> [intf |-> args[2], stamp |-> args[3], mac |-> args[4]]]
    ELSE [err |-> "TypeError", nei |-> [intf |-> NoObj, stamp |-> 0, mac |-> "none"]]

RECURSIVE NeighbourLoop(_, _, _)
\* the loop of mac_search over the sorted entries: each iteration looks the
\* interface up in the cache and calls MACNeighbour(intf, time, mac); the
\* first exception ends the loop
NeighbourLoop(w, es, neis) ==
    IF es = <<>> THEN [w |-> w, err |-> "None", neis |-> neis]
    ELSE LET w1 == interface(w, es[1].path, es[1].index)
             made == MACNeighbour(<<Returned(w1), es[1].time, es[1].mac>>)
         IN  IF made.err # "None" THEN [w |-> w1, err |-> made.err, neis |-> <<>>]
             ELSE NeighbourLoop(w1, Tail(es), Append(neis, made.nei))

\* Client.mac_search; resp is the response the GET would receive
mac_search(w, resp) ==
    IF resp.status = 200
    THEN NeighbourLoop(w, SortEntries(resp.interfaces), <<>>)
    ELSE [w |-> w, err |-> "APIException", neis |-> <<>>]

\* client.mac_search(fragment)
MacSearch(fragment, resp) ==
    LET out == mac_search(World, resp)
    IN  /\ Commit(out.w, held)
        /\ ret' = [op |-> "mac_search", evs |-> out.w.evs,
                   http |-> <<Get("/macs", fragment, NoIndex)>>, err |-> out.err,
                   obj |-> NoObj, val |-> out.neis, status |-> resp.status,
                   entries |-> resp.interfaces]
        /\ UNCHANGED <<focus, nfresh, nbulk, wsVars>>

-----------------------------------------------------------------------------
(* Initial state: a Client right after Client.__init__ *)

InitClient ==
    /\ cont_cache = <<>>
    /\ sw_cache = <<>>
    /\ intf_cache = <<>>
    /\ heap = [id \in {} |-> ContainerInit(RootPath, FALSE)]
    /\ held = {}
    /\ nfresh = 0
    /\ nbulk = 0
    /\ recency = [cont |-> <<>>, sw |-> <<>>, intf |-> <<>>]
    /\ lost = {}
    /\ ret = Ret("init", <<>>, <<>>, "None", NoObj)
    /\ ws_cookie = 1
    /\ writespecs = <<>>
    /\ sent = <<>>
    /\ gens = [g \in Slots |-> NoGen]
    /\ running = "none"
    /\ wp = NoDic
    /\ auth = NoAuth
    /\ tv = NoTv

-----------------------------------------------------------------------------
(* The cache workloads.  Each fills one cache with fresh keys, one by one   *)
(* or through a listing one entry short of the cache's capacity, while it   *)
(* keeps coming back to the hot key.                                        *)

\* responses to GET /containers/{path}/children
ChildrenResponses ==
    { [status |-> 200, children |-> <<>>],
      [status |-> 200, children |-> <<[type |-> "container", path |-> HotPath],
                                      [type |-> "switch", path |-> HotPath]>>],
      [status |-> 200, children |-> <<[type |-> "other", path |-> HotPath],
                                      [type |-> "container", path |-> HotPath]>>],
      [status |-> 404, children |-> <<>>] }

\* a listing of n fresh child containers
LongChildren(n) ==
    [status |-> 200,
     children |-> [i \in 1..n |-> [type |-> "container", path |-> FreshPaths(n)[i]]]]

\* responses to GET /switches/{path}/interfaces
InterfacesResponses ==
    { [status |-> 200, indexes |-> <<0, 0>>],
      [status |-> 404, indexes |-> <<>>] }

\* a listing of n fresh interface indexes
LongInterfaces(n) == [status |-> 200, indexes |-> [i \in 1..n |-> nfresh + i]]

\* responses to the GET of a configuration snapshot
SnapshotResponses == { [status |-> 200, ver |-> 1], [status |-> 404, ver |-> 0] }

InitCache ==
    /\ focus \in {"cont", "sw", "sw_intf", "intf"}
    /\ budget = 0
    /\ InitClient

NextCache ==
    \/ /\ focus = "cont"
       /\ \E keep \in BOOLEAN : CallContainer(HotPath, FALSE, keep)
    \/ /\ focus = "cont"
       /\ Singles(ContCacheSize) < Extra
       /\ CallContainer(FreshPath(nfresh + 1), TRUE, FALSE)
    \/ /\ focus = "cont"
       /\ \E o \in held, resp \in ChildrenResponses : Children(o, resp, 0)
    \/ /\ focus = "cont"
       /\ nbulk < MaxBulk
       /\ \E o \in held :
             Children(o, LongChildren(ContCacheSize - 1), ContCacheSize - 1)
    \/ /\ focus \in {"sw", "sw_intf", "intf"}
       /\ \E keep \in BOOLEAN : CallSwitch(HotPath, FALSE, keep)
    \/ /\ focus = "sw"
       /\ nfresh < SwCacheSize + Extra
       /\ CallSwitch(FreshPath(nfresh + 1), TRUE, FALSE)
    \/ /\ focus = "sw_intf"
       /\ CallInterface(HotPath, 1, FALSE, FALSE)
    \/ /\ focus = "sw_intf"
       /\ nfresh < SwCacheSize + Extra
       /\ CallInterface(FreshPath(nfresh + 1), 1, TRUE, FALSE)
    \/ /\ focus = "intf"
       /\ CallInterface(HotPath, 0, FALSE, FALSE)
    \/ /\ focus = "intf"
       /\ Singles(IntfCacheSize) < Extra
       /\ CallInterface(HotPath, nfresh + 1, TRUE, FALSE)
    \/ /\ focus = "intf"
       /\ \E o \in held, resp \in InterfacesResponses : Interfaces(o, resp, 0)
    \/ /\ focus = "intf"
       /\ nbulk < MaxBulk
       /\ \E o \in held :
             Interfaces(o, LongInterfaces(IntfCacheSize - 1), IntfCacheSize - 1)
    \/ \E o \in held : Drop(o)
    \/ /\ focus # "intf"
       /\ \E o \in held : SetProp(o, "display_name", LabName)
    \/ /\ focus # "intf"
       /\ \E o \in held, resp \in SnapshotResponses : GetProp(o, "display_name", resp)

SpecCache == InitCache /\ [][NextCache]_vars

-----------------------------------------------------------------------------
(* The proxy workload: the hot container, children created under it and   *)
(* saved, and lookups of the paths those children are saved at             *)

SaveResponses ==
    { [status |-> 200, ver |-> 2], [status |-> 201, ver |-> 0],
      [status |-> 303, ver |-> 0], [status |-> 500, ver |-> 0] }

\* "a.lab" and "a.sw"
LabPath == Append(HotPath, Slug(LabName))
SwPath == Append(HotPath, Slug(HostName))

InitProxy ==
    /\ focus \in {"new_cont", "new_sw"}
    /\ budget = 0
    /\ InitClient

NextProxy ==
    \/ \E keep \in BOOLEAN : CallContainer(HotPath, FALSE, keep)
    \/ /\ focus = "new_cont"
       /\ \E keep \in BOOLEAN : CallContainer(LabPath, FALSE, keep)
    \/ /\ focus = "new_sw"
       /\ \E keep \in BOOLEAN : CallSwitch(SwPath, FALSE, keep)
    \/ /\ focus = "new_cont"
       /\ \E o \in held : ~heap[o].new /\ NewChild(o, "Container")
    \/ /\ focus = "new_sw"
       /\ \E o \in held : ~heap[o].new /\ NewChild(o, "Switch")
    \/ \E o \in held :
          /\ heap[o].cls = "Container"
          /\ focus = "new_cont"
          /\ SetProp(o, "display_name", LabName)
    \/ \E o \in held :
          /\ heap[o].cls = "Switch"
          /\ SetProp(o, "hostname", HostName)
    \/ \E o \in held, resp \in SnapshotResponses :
          /\ heap[o].cls = "Container" => focus = "new_cont"
          /\ GetProp(o, IF heap[o].cls = "Switch" THEN "hostname" ELSE "display_name",
                     resp)
    \/ \E o \in held, resp \in SaveResponses :
          /\ heap[o].cls = "Container" => focus = "new_cont"
          /\ Save(o, resp)
    \/ \E o \in held : Drop(o)

SpecProxy == InitProxy /\ [][NextProxy]_vars

-----------------------------------------------------------------------------
(* The streaming workload: stats and write calls, interleaved at will, over *)
(* a server that sends any frames for the requests it has received          *)

InitWs ==
    /\ focus = "ws"
    /\ budget = MaxFrames
    /\ InitClient

NextWs ==
    \/ AssignInterface(HotPath, 0, "vlan", Len(writespecs) + 1)
    \/ \E commit \in BOOLEAN : CallWrite("w", commit)
    \/ CallStats
    \/ \E g \in Slots : Advance(g)
    \/ \E g \in Slots : \E frame \in Arriving(g) : Recv(g, frame)

SpecWs == InitWs /\ [][NextWs]_vars

-----------------------------------------------------------------------------
(* Properties of the identity caches *)

-----------------------------------------------------------------------------
(* The interface workload: the caller looks up two interfaces of the hot   *)
(* switch, assigns their writable attributes and reads them                *)

\* the attributes assigned and read, and the values assigned
IntfAttrs == {"vlan", "alias"}
IntfVals == {1, 2}

\* responses to GET /interfaces/{path}/{index}
IntfResponses ==
    { [status |-> 200, ver |-> 7, names |-> {"vlan", "alias"}],
      [status |-> 200, ver |-> 1, names |-> {"alias"}],
      [status |-> 404, ver |-> 0, names |-> {}] }

InitIntf ==
    /\ focus = "intf_write"
    /\ budget = 0
    /\ InitClient

NextIntf ==
    \/ \E index \in {0, 1} : CallInterface(HotPath, index, FALSE, TRUE)
    \/ \E o \in held, name \in IntfAttrs, val \in IntfVals : SetIntfProp(o, name, val)
    \/ \E o \in held, name \in IntfAttrs, resp \in IntfResponses :
          GetIntfProp(o, name, resp)

SpecIntf == InitIntf /\ [][NextIntf]_vars

-----------------------------------------------------------------------------
(* The save workload: children created under the containers "a" and "a.b", *)
(* named, saved and saved again, read, asked for their status and deleted   *)

\* "a.b"
ABPath == << <<97>>, <<98>> >>

\* "My Lab!!"
MyLab == <<77, 121, 32, 76, 97, 98, 33, 33>>

StatusResponses ==
    { [status |-> 200, state |-> "ok", stime |-> 1, done |-> 1, size |-> 2, ptime |-> 1],
      [status |-> 200, state |-> "error", stime |-> 2, done |-> 2, size |-> 2, ptime |-> 2],
      [status |-> 500, state |-> "none", stime |-> 0, done |-> 0, size |-> 0, ptime |-> 0] }

DeleteResponses == { [status |-> 410], [status |-> 204], [status |-> 404] }

InitSave ==
    /\ focus = "save"
    /\ budget = 0
    /\ InitClient

NextSave ==
    \/ \E path \in {HotPath, ABPath} : CallContainer(path, FALSE, TRUE)
    \/ \E o \in held, cls \in {"Container", "Switch"} :
          ~heap[o].new /\ NewChild(o, cls)
    \/ \E o \in held, val \in {LabName, MyLab} :
          /\ heap[o].cls = "Container"
          /\ heap[o].new
          /\ SetProp(o, "display_name", val)
    \/ \E o \in held :
          /\ heap[o].cls = "Switch"
          /\ SetProp(o, "hostname", HostName)
    \/ \E o \in held, resp \in SnapshotResponses :
          GetProp(o, NameKey(heap[o].cls), resp)
    \/ \E o \in held, resp \in SaveResponses : Save(o, resp)
    \/ \E o \in held, resp \in StatusResponses : Status(o, resp)
    \/ \E o \in held, resp \in StatusResponses : ReadSwitchProgress(o, resp)
    \/ \E o \in held, resp \in DeleteResponses, kids \in BOOLEAN :
          DeleteContainer(o, resp, kids)

SpecSave == InitSave /\ [][NextSave]_vars

-----------------------------------------------------------------------------
(* The search workload: MAC searches answered with up to MaxEntries entries *)
(* in any order, among lookups of the interfaces they name                   *)

\* "00:1b"
MacFragment == <<48, 48, 58, 49, 98>>

\* the switch "b"
SidePath == << <<98>> >>

\* the entries a response is made of
MacEntries ==
    { [path |-> key[1], index |-> key[2], time |-> 5, mac |-> "00:1b:21:00:00:01"] :
         key \in { <<HotPath, 0>>, <<HotPath, 1>>, <<SidePath, 0>> } }

\* the lists of at most n entries
EntryLists(n) == UNION { [1..k -> MacEntries] : k \in 0..n }

MacResponses ==
    { [status |-> 200, interfaces |-> es] : es \in EntryLists(MaxEntries) }
       \cup { [status |-> 404, interfaces |-> <<>>] }

InitMac ==
    /\ focus = "mac"
    /\ budget = 0
    /\ InitClient

NextMac ==
    \/ \E resp \in MacResponses : MacSearch(MacFragment, resp)
    \/ \E e \in MacEntries : CallInterface(e.path, e.index, FALSE, TRUE)

SpecMac == InitMac /\ [][NextMac]_vars

-----------------------------------------------------------------------------
(* The history workload: the histories of the hot switch and of two of its *)
(* interfaces, answered with up to MaxLogs entries of known and unknown     *)
(* types                                                                    *)

ChangeTypes == {"interface", "switch", "interface_write", "switch_write"}

\* the entries a history response is made of; "vlan" is a type that
\* from_blob does not know
LogEntries ==
    { [type |-> type, time |-> 5, index |-> 0, user |-> "alex", changes |-> "{}"] :
         type \in ChangeTypes \cup {"vlan"} }

HistoryResponses ==
    { [status |-> 200, logs |-> logs] :
         logs \in UNION { [1..k -> LogEntries] : k \in 0..MaxLogs } }
       \cup { [status |-> 404, logs |-> <<>>] }

InitHistory ==
    /\ focus = "history"
    /\ budget = 0
    /\ InitClient

NextHistory ==
    \/ CallSwitch(HotPath, FALSE, TRUE)
    \/ \E index \in {0, 1} : CallInterface(HotPath, index, FALSE, TRUE)
    \/ \E o \in held, resp \in HistoryResponses : History(o, resp)

SpecHistory == InitHistory /\ [][NextHistory]_vars

-----------------------------------------------------------------------------
(* The TimedValue workload: values constructed from arguments and from a   *)
(* mapping, with integer, fractional and missing times, and read            *)

TvValues == {"up", "down", "None"}
TvTimes == { Num(n, half) : n \in (0 - 1)..MaxTime, half \in BOOLEAN } \cup {NoNum}
TvSrcs == {NoSrc, EmptySrc} \cup { Src(v, t) : v \in TvValues, t \in TvTimes }

InitTimed ==
    /\ focus = "timed"
    /\ budget = 0
    /\ InitClient

NextTimed ==
    \/ \E value \in TvValues, time \in TvTimes, src \in TvSrcs :
          Construct(value, time, src)
    \/ \E op \in {"value", "raw_time", "time", "repr", "str"} : ReadTv(op)

SpecTimed == InitTimed /\ [][NextTimed]_vars

-----------------------------------------------------------------------------
(* The switch workload: configuration and data properties of the hot       *)
(* switch and of a switch created under the hot container, read in any      *)
(* order, assigned and saved                                                *)

\* the data properties read
DataProps == {"description", "sysname", "stp_bridge_id", "vlans", "uptime"}

\* responses to GET /switches/{path} and GET /switches/{path}/data
SwitchResponses ==
    { [status |-> 200, ver |-> 1], [status |-> 200, ver |-> 3],
      [status |-> 404, ver |-> 0] }

InitData ==
    /\ focus = "data"
    /\ budget = 0
    /\ InitClient

NextData ==
    \/ CallSwitch(HotPath, FALSE, TRUE)
    \/ CallContainer(HotPath, FALSE, TRUE)
    \/ \E o \in held : ~heap[o].new /\ NewChild(o, "Switch")
    \/ \E o \in held : heap[o].cls = "Switch" /\ SetProp(o, "hostname", HostName)
    \/ \E o \in held, resp \in SwitchResponses :
          heap[o].cls = "Switch" /\ GetProp(o, "hostname", resp)
    \/ \E o \in held, name \in DataProps, resp \in SwitchResponses :
          GetDataProp(o, name, resp)
    \/ \E o \in held, resp \in SaveResponses :
          heap[o].cls = "Switch" /\ Save(o, resp)

SpecData == InitData /\ [][NextData]_vars

-----------------------------------------------------------------------------
(* The write-and-read workload: an interface of the hot switch is read,    *)
(* assigned and read again while a write() is created, advanced and         *)
(* answered by the server                                                   *)

InitWriteRead ==
    /\ focus = "write_read"
    /\ budget = MaxFrames
    /\ InitClient

NextWriteRead ==
    \/ CallInterface(HotPath, 0, FALSE, TRUE)
    \/ \E o \in held, resp \in IntfResponses : GetIntfProp(o, "vlan", resp)
    \/ \E o \in held : running = "none" /\ SetIntfProp(o, "vlan", Len(writespecs) + 1)
    \/ CallWrite("w", TRUE)
    \/ Advance("w")
    \/ \E frame \in Arriving("w") : Recv("w", frame)

SpecWriteRead == InitWriteRead /\ [][NextWriteRead]_vars

-----------------------------------------------------------------------------
(* The authentication workload: one credential object, read by the caller, *)
(* by client construction and by the client's HTTP calls                   *)

InitAuth ==
    /\ focus = "auth"
    /\ budget = 0
    /\ InitClient

NextAuth ==
    \/ \E resp \in HandshakeResponses : ReadCookie(resp)
    \/ \E resp \in HandshakeResponses : NewClient(resp)
    \/ \E method \in {"GET", "POST", "DELETE"}, resp \in HandshakeResponses :
          Request(method, resp)

SpecAuth == InitAuth /\ [][NextAuth]_vars

-----------------------------------------------------------------------------
(* The progress workload: the caller walks through progress objects that   *)
(* write() can yield and reads their properties                            *)

InitProgress ==
    /\ focus = "progress"
    /\ budget = 0
    /\ InitClient

NextWp ==
    \/ ReadFinished
    \/ ReadProgress
    \/ ReadPercent
    \/ \E dic \in {EmptyDic} \cup FrameDics : NextProgress(dic)

SpecProgress == InitProgress /\ [][NextWp]_vars

-----------------------------------------------------------------------------
Events == { ret.evs[i] : i \in 1..Len(ret.evs) }

\* C1: a lookup (direct, or made by a children or interfaces listing) of a key
\* that was looked up before and has not been evicted since returns the very
\* object the earlier lookup returned, and constructs nothing.
C1_SameObjectWhileCached ==
    \A ev \in Events : ev.prev # {} => (ev.prev = {ev.obj} /\ ~ev.created)

\* a repeated lookup of the hot container while the container cache is full,
\* made by a children listing
C1_Witness ==
    /\ ret.op = "children"
    /\ Len(cont_cache) = ContCacheSize
    /\ \E ev \in Events : ev.cache = "cont" /\ ev.key = HotPath /\ ev.prev # {}

\* C3: the caches never exceed 50, 20 and 100 entries; a lookup evicts only
\* when it inserts a new key into a full cache, and then it evicts exactly the
\* key whose last lookup is the oldest.
C3_BoundedLRU ==
    /\ Len(cont_cache) <= ContCacheSize
    /\ Len(sw_cache) <= SwCacheSize
    /\ Len(intf_cache) <= IntfCacheSize
    /\ \A ev \in Events :
          ev.evicted # {} => (ev.full /\ ev.isNew /\ ev.evicted = ev.oldest)

\* an eviction from the full interface cache that spares the hot interface,
\* which was inserted first but looked up again since
C3_Witness ==
    /\ Len(intf_cache) = IntfCacheSize
    /\ <<HotPath, 0>> \in LRUKeys(intf_cache)
    /\ intf_cache[1].key # <<HotPath, 0>>
    /\ \E ev \in Events : ev.cache = "intf" /\ ev.evicted # {}
                             /\ <<HotPath, 0>> \notin ev.evicted

\* C4: the lookup that follows the eviction of a Switch or Container with
\* pending changes constructs a new proxy with no pending changes and no
\* blob; the evicting call raises nothing and a lookup sends no request.
C4_EvictionLosesChanges ==
    /\ \A ev \in Events :
          ev.wasLost =>
             /\ ev.created
             /\ ev.obj \in DOMAIN heap
             /\ heap[ev.obj].changes = {}
             /\ heap[ev.obj].blob = NoBlob
    /\ (\E ev \in Events : ev.lostNow \/ ev.wasLost) =>
          /\ ret.err = "None"
          /\ sent = <<>>
          /\ \A i \in 1..Len(ret.http) :
                ret.op = "children" /\ i = 1 /\ ret.http[i].ep = "/containers/children"

\* the hot container is looked up again after it was evicted with pending
\* changes, while the caller still holds the evicted proxy
C4_Witness ==
    /\ ret.op = "container"
    /\ \E ev \in Events : ev.wasLost /\ ev.cache = "cont"
    /\ \E o \in held : o # ret.obj /\ heap[o].path = HotPath /\ heap[o].changes # {}

\* a proxy that new_container() or new_switch() made and save() has not yet
\* given a path of its own: it still shows the path of its parent
Unsaved(o) == heap[o].new /\ heap[o].path = o.key

\* C2: no two distinct live Container proxies and no two distinct live Switch
\* proxies carry the same path (proxies not yet saved are left aside).
C2_OneProxyPerPath ==
    \A o1, o2 \in DOMAIN heap :
        ( /\ o1 # o2
          /\ heap[o1].cls = heap[o2].cls
          /\ heap[o1].cls \in {"Container", "Switch"}
          /\ ~Unsaved(o1)
          /\ ~Unsaved(o2) ) => heap[o1].path # heap[o2].path

\* the step that has just been taken is generator g reading frame f
Read(g) == ret'.op = "recv" /\ ret'.gen = g

\* C5: the correlation IDs sent on the connection start at 1, are strictly
\* increasing in send order, and no ID is sent twice.
C5_CookiesIncrease ==
    /\ Len(sent) > 0 => sent[1].cookie = 1
    /\ \A i, j \in 1..Len(sent) : i < j => sent[i].cookie < sent[j].cookie

\* three requests were sent: a write that failed, a stats request abandoned
\* after its first frame and one more stats request
C5_Witness ==
    /\ Len(sent) >= 3
    /\ gens["w"].pc = "failed"
    /\ \E i, j \in 1..Len(sent) :
          i < j /\ sent[i].method = "get_stats" /\ sent[j].method = "get_stats"

\* C6: in the receive loop an empty frame changes nothing and the loop reads
\* on; a partial_reply with the request's ID is appended to what was yielded
\* so far, the sequence is not over, and resuming it reads the next frame.
C6_SkipEmptyYieldPartial ==
    [][\A g \in Slots :
         /\ Read(g) =>
              /\ ret'.frame = EmptyFrame =>
                    (gens'[g] = gens[g] /\ running' = g)
              /\ (ret'.frame.type = "partial_reply"
                     /\ ret'.frame.cookie = gens[g].cookie) =>
                    /\ gens'[g] = [gens[g] EXCEPT !.pc = "yielded",
                                                 !.out = Append(@, ret'.frame)]
                    /\ running' = "none"
         /\ (ret'.op = "next" /\ ret'.gen = g /\ gens[g].pc = "yielded") =>
              (gens'[g] = [gens[g] EXCEPT !.pc = "recv"] /\ running' = g)
    ]_vars

\* a write that has yielded one partial_reply, was resumed, and has just
\* skipped an empty frame
C6_Witness ==
    /\ ret.op = "recv"
    /\ ret.gen = "w"
    /\ ret.frame = EmptyFrame
    /\ ret.nout = 1
    /\ gens["w"].out[1].type = "partial_reply"
    /\ gens["w"].pc = "recv"
    /\ running = "w"

\* C7: every reply frame with the request's ID ends the sequence, whatever
\* its status: once it is read the generator reads no further frame.
C7_EveryReplyTerminates ==
    ( /\ ret.op = "recv"
      /\ ret.frame.type = "reply"
      /\ ret.frame.cookie = ret.cookie ) =>
        /\ gens[ret.gen].pc \in {"yielded_ok", "failed"}
        /\ running # ret.gen

\* C8: a reply ok with the request's ID is yielded, it is the last element,
\* it is there once, and resuming ends the generator; a reply error with the
\* request's ID is not yielded and fails the request with the frame's reason,
\* or with the whole frame when it has none.
C8_OkYieldedOnceErrorRaised ==
    /\ [][\A g \in Slots :
            /\ (Read(g) /\ ret'.frame.type = "reply"
                        /\ ret'.frame.cookie = gens[g].cookie) =>
                 /\ ret'.frame.status = "ok" =>
                       /\ gens'[g] = [gens[g] EXCEPT !.pc = "yielded_ok",
                                                    !.out = Append(@, ret'.frame)]
                       /\ running' = "none"
                 /\ ret'.frame.status = "error" =>
                       /\ gens'[g].out = gens[g].out
                       /\ gens'[g].pc = "failed"
                       /\ gens'[g].err.kind = "Exception"
                       /\ gens'[g].err.msg =
                             (IF ret'.frame.reason # "none"
                              THEN ret'.frame.reason ELSE "str(reply)")
                       /\ ret'.frame.reason = "none" =>
                             gens'[g].err.frame = ret'.frame
                       /\ running' = "none"
            /\ (ret'.op = "next" /\ ret'.gen = g /\ gens[g].pc = "yielded_ok") =>
                 /\ gens'[g] = [gens[g] EXCEPT !.pc = "done"]
                 /\ running' = "none"
                 /\ sent' = sent
       ]_vars
    /\ [](\A g \in Slots : \A i \in 1..Len(gens[g].out) :
             (gens[g].out[i].type = "reply") =>
                 /\ i = Len(gens[g].out)
                 /\ gens[g].out[i].status = "ok"
                 /\ gens[g].pc \in {"yielded_ok", "done"})

\* a stats request failed with the server's reason, and a write yielded its
\* reply ok and ended when resumed
C8_Witness ==
    /\ gens["stats"].pc = "failed"
    /\ gens["stats"].err.msg = "denied"
    /\ ret.op = "next"
    /\ ret.from = "yielded_ok"
    /\ gens["w"].pc = "done"
    /\ gens["w"].out[Len(gens["w"].out)].status = "ok"

\* C9: a non-empty frame with another correlation ID fails the request with
\* 'Cookie mismatch'; the frame is not yielded, and a failed generator reads
\* nothing more: it is not running and stays as it is until the caller's
\* variable is given another generator.
C9_MismatchFailsFast ==
    /\ [][\A g \in Slots :
            /\ (Read(g) /\ ret'.frame # EmptyFrame
                        /\ ret'.frame.cookie # gens[g].cookie) =>
                 /\ gens'[g] = [gens[g] EXCEPT
                       !.pc = "failed",
                       !.err = [kind |-> "Exception", msg |-> "Cookie mismatch",
                                frame |-> EmptyFrame]]
                 /\ running' = "none"
            /\ (gens[g].pc = "failed" /\ gens'[g] # gens[g]) =>
                 gens'[g].cookie # gens[g].cookie
       ]_vars
    /\ [](\A g \in Slots : gens[g].pc = "failed" => running # g)

\* a write that had yielded a frame of its own has just read the reply of
\* the stats request abandoned before it
C9_Witness ==
    /\ ret.op = "recv"
    /\ ret.gen = "w"
    /\ ret.nout = 1
    /\ ret.frame.type = "reply"
    /\ ret.frame.cookie < ret.cookie
    /\ gens["w"].pc = "failed"
    /\ gens["w"].err.msg = "Cookie mismatch"

\* C10: whatever the interleaving of two requests, every frame a request
\* has yielded carries that request's correlation ID, and a request whose
\* last read was a frame of the other one has failed with 'Cookie mismatch'.
C10_NoCrossYield ==
    /\ \A g \in Slots : \A i \in 1..Len(gens[g].out) :
          gens[g].out[i] # EmptyProgress => gens[g].out[i].cookie = gens[g].cookie
    /\ ( /\ ret.op = "recv"
         /\ ret.frame # EmptyFrame
         /\ ret.frame.cookie # ret.cookie ) =>
           /\ gens[ret.gen].pc = "failed"
           /\ gens[ret.gen].err.msg = "Cookie mismatch"

\* the write is partially consumed, with frames still to come, and the stats
\* request started after it has read one of the write's frames
C10_Witness ==
    /\ gens["w"].pc = "yielded"
    /\ gens["w"].cookie > 0
    /\ gens["stats"].cookie > gens["w"].cookie
    /\ ret.op = "recv"
    /\ ret.gen = "stats"
    /\ ret.frame.cookie = gens["w"].cookie
    /\ gens["stats"].pc = "failed"

\* C11: write() on an empty queue yields one WriteProgress, which is
\* finished, and ends when resumed; it sends nothing, takes no correlation
\* ID, reads no frame and makes no HTTP request.
C11_EmptyQueueWrite ==
    [][\A g \in Slots :
         /\ (ret'.op = "next" /\ ret'.gen = g /\ gens[g].pc = "created"
                /\ writespecs = <<>>) =>
              /\ gens'[g] = [gens[g] EXCEPT !.pc = "yielded_empty",
                                           !.out = <<EmptyProgress>>]
              /\ Finished(EmptyDic) = Value(TRUE)
              /\ sent' = sent
              /\ ws_cookie' = ws_cookie
              /\ budget' = budget
              /\ running' = "none"
              /\ ret'.http = <<>>
         /\ (ret'.op = "next" /\ ret'.gen = g /\ gens[g].pc = "yielded_empty") =>
              /\ gens'[g] = [gens[g] EXCEPT !.pc = "done"]
              /\ sent' = sent
              /\ ws_cookie' = ws_cookie
              /\ budget' = budget
              /\ running' = "none"
              /\ ret'.http = <<>>
    ]_vars

\* a write() on the empty queue of a new client has yielded its one progress
\* and ended
C11_Witness ==
    /\ ret.op = "next"
    /\ ret.from = "yielded_empty"
    /\ gens["w"].pc = "done"
    /\ gens["w"].out = <<EmptyProgress>>
    /\ sent = <<>>
    /\ ws_cookie = 1

\* the WriteSpecs that went out with the write request of correlation ID c
SpecsSent(c) ==
    LET i == CHOOSE i \in 1..Len(sent) : sent[i].cookie = c
    IN  sent[i].args.specs

IsPrefix(s, t) == Len(s) <= Len(t) /\ \A i \in 1..Len(s) : s[i] = t[i]

\* the frame is the reply ok to the request of generator g
OkFor(frame, g) ==
    frame.type = "reply" /\ frame.status = "ok" /\ frame.cookie = gens[g].cookie

\* C12: a write() on a non-empty queue sends one 'write' request, with the
\* whole queue in order and the commit flag, and sends nothing more; the
\* frames it reads leave the queue as it is, except the reply ok to its
\* request, which empties it; nothing else empties the queue.
C12_OneRequestQueueClearedOnOk ==
    [][/\ \A g \in Slots :
            /\ (ret'.op = "next" /\ ret'.gen = g /\ gens[g].pc = "created"
                   /\ writespecs # <<>>) =>
                 /\ sent' = Append(sent,
                       [cookie |-> ws_cookie, method |-> "write",
                        args |-> [specs |-> writespecs, commit |-> gens[g].commit]])
                 /\ writespecs' = writespecs
            /\ (ret'.op \in {"next", "recv"} /\ ret'.gen = g
                   /\ gens[g].kind = "write" /\ gens[g].pc # "created") =>
                 sent' = sent
            /\ (Read(g) /\ gens[g].kind = "write") =>
                 writespecs' = IF OkFor(ret'.frame, g) THEN <<>> ELSE writespecs
       /\ (writespecs # <<>> /\ writespecs' = <<>>) =>
            \E g \in Slots : Read(g) /\ gens[g].kind = "write" /\ OkFor(ret'.frame, g)
    ]_vars

\* two WriteSpecs were queued, write(commit = False) sent them, yielded a
\* partial reply, and has just read the reply ok
C12_Witness ==
    /\ ret.op = "recv"
    /\ ret.gen = "w"
    /\ ret.frame.status = "ok"
    /\ ret.nout = 1
    /\ gens["w"].pc = "yielded_ok"
    /\ ~gens["w"].commit
    /\ Len(SpecsSent(gens["w"].cookie)) = 2
    /\ SpecsSent(gens["w"].cookie)[1] # SpecsSent(gens["w"].cookie)[2]
    /\ writespecs = <<>>

\* C13: a write() that failed, by an error reply or a cookie mismatch, left
\* the queue as it was: the WriteSpecs it sent are still there, in order, at
\* the head of the queue; the write() that follows sends them again under a
\* larger correlation ID.
C13_FailedWriteKeepsQueue ==
    /\ [][\A g \in Slots :
            (Read(g) /\ gens'[g].pc = "failed") => writespecs' = writespecs
       ]_vars
    /\ [](\A g \in Slots :
            /\ (gens[g].kind = "write" /\ gens[g].pc = "failed") =>
                 /\ writespecs # <<>>
                 /\ IsPrefix(SpecsSent(gens[g].cookie), writespecs)
            /\ (gens[g].follows # 0 /\ gens[g].cookie # 0) =>
                 /\ gens[g].cookie > gens[g].follows
                 /\ IsPrefix(SpecsSent(gens[g].follows), SpecsSent(gens[g].cookie)))

\* a write failed on an error reply and the write() after it has sent the
\* same WriteSpecs again
C13_Witness ==
    /\ gens["w"].follows # 0
    /\ gens["w"].cookie > gens["w"].follows
    /\ SpecsSent(gens["w"].follows) = SpecsSent(gens["w"].cookie)
    /\ writespecs = SpecsSent(gens["w"].cookie)

C15_AssignmentAppends ==
    [][IF ret'.op = "setattr"
       THEN writespecs' = Append(writespecs,
               [path |-> heap[ret'.obj].path, attribute |-> ret'.name,
                index |-> heap[ret'.obj].index, value |-> ret'.val.value])
       ELSE writespecs' = writespecs
    ]_vars

\* the same attribute of one interface was assigned twice, with different
\* values
C15_Witness ==
    /\ ret.op = "setattr"
    /\ Len(writespecs) >= 2
    /\ \E i, j \in 1..Len(writespecs) :
          /\ i < j
          /\ writespecs[i].index = writespecs[j].index
          /\ writespecs[i].attribute = writespecs[j].attribute
          /\ writespecs[i].value # writespecs[j].value

\* C16: an assignment to an Interface attribute changes the queue and
\* nothing of the Interface; a read of an attribute returns the value of the
\* server snapshot, whatever is queued for it.
C16_ReadReturnsSnapshot ==
    /\ [][ret'.op = "setattr" =>
             (heap' = heap /\ intf_cache' = intf_cache /\ ret'.http = <<>>)
       ]_vars
    /\ []((ret.op = "getattr" /\ ret.err = "None") =>
             /\ heap[ret.obj].blob.src = "/interfaces"
             /\ heap[ret.obj].changes = {}
             /\ ret.val = IF ret.name \in heap[ret.obj].blob.names
                          THEN [from |-> "/interfaces",
                                value |-> heap[ret.obj].blob.ver]
                          ELSE NoVal)

\* an attribute was assigned the value 2 and the read that follows returns
\* the 7 of the snapshot
C16_Witness ==
    /\ ret.op = "getattr"
    /\ ret.val.value = 7
    /\ QueuedFor(heap[ret.obj], ret.name) # {}
    /\ \A i \in QueuedFor(heap[ret.obj], ret.name) : writespecs[i].value = 2

C18_FinishedByKind ==
    ret.op = "finished" =>
        /\ ret.err = "None"
        /\ ret.val = (wp = EmptyDic \/ wp.type = "reply")

\* C19: percent of a finished progress (the one made up for an empty queue,
\* or one that wraps a reply frame) is 100, whatever the frame says about
\* progress.
C19_FinishedPercent100 ==
    (ret.op = "percent" /\ (wp = EmptyDic \/ wp.type = "reply")) =>
        /\ ret.err = "None"
        /\ ret.val = [num |-> 100, den |-> 1]

\* C20: percent of a progress that is not finished and reports done and a
\* size above 0 is the integer quotient of 100 * done by size; percent
\* raises when the frame reports no progress.
C20_PercentIntegerQuotient ==
    (ret.op = "percent" /\ Finished(wp) = Value(FALSE)) =>
        /\ (wp.progress.kind = "dict" /\ wp.progress.size > 0) =>
              /\ ret.err = "None"
              /\ ret.val = [num |-> (100 * wp.progress.done) \div wp.progress.size,
                            den |-> 1]
        /\ wp.progress.kind \in {"absent", "None"} => ret.err # "None"

\* C21 as stated: once a handshake has succeeded, every later read returns
\* the same cookie and sends no handshake POST, so no credential object has
\* more than one successful handshake.
C21_NoPostAfterSuccess ==
    /\ [][auth.ok >= 1 =>
             /\ auth'.posts = auth.posts
             /\ auth'.cookie = auth.cookie
             /\ ret'.val = auth.cookie
       ]_vars
    /\ [](auth.ok <= 1)

\* C21: once a handshake has succeeded with a non-empty cookie, every later
\* read (by the caller, by Client construction, by every GET, POST and DELETE)
\* returns that cookie, raises nothing and sends no handshake POST; the
\* requests go out with that cookie.
C21_NoPostAfterCookie ==
    [][Truthy(auth.cookie) =>
          /\ auth'.posts = auth.posts
          /\ auth'.ok = auth.ok
          /\ auth'.cookie = auth.cookie
          /\ ret'.err = NoAuthErr
          /\ ret'.val = auth.cookie
          /\ ret'.posts = 0
          /\ \A i \in 1..Len(ret'.http) : ret'.http[i].cookie = auth.cookie
    ]_vars

\* after one failed and one successful handshake, a GET of the client goes
\* out with the memoized cookie
C21_Witness ==
    /\ ret.op = "GET"
    /\ ret.posts = 0
    /\ ret.val = "abc123"
    /\ ret.http = <<[method |-> "GET", cookie |-> "abc123"]>>
    /\ auth.posts = 2
    /\ auth.ok = 1

\* C22: a handshake answered with a status other than 200 raises
\* MachAuthError with that status and body after one POST and memoizes
\* nothing; while the token has no cookie, every read sends a handshake.
C22_FailedHandshake ==
    [][/\ (ret'.posts > 0 /\ ret'.err.kind = "MachAuthError") =>
            /\ ret'.posts = 1
            /\ auth'.posts = auth.posts + 1
            /\ ret'.err.code # 200
            /\ ret'.err.text = ret'.resp
            /\ ret'.val = "None"
            /\ ret'.http = <<>>
            /\ auth'.cookie = auth.cookie
            /\ auth'.ok = auth.ok
            /\ ~Truthy(auth'.cookie)
       /\ ~Truthy(auth.cookie) => (ret'.posts = 1 /\ auth'.posts = auth.posts + 1)
       /\ (ret'.posts > 0 /\ ret'.resp \in {"denied", "oops"}) =>
            ret'.err.kind = "MachAuthError"
    ]_vars

\* two handshakes in a row were refused, and the token still has no cookie
C22_Witness ==
    /\ auth.posts = 2
    /\ auth.ok = 0
    /\ auth.cookie = "None"
    /\ ret.err = [kind |-> "MachAuthError", code |-> 403, text |-> "denied"]

\* "a.b.my-lab-" and "a.b.my-lab"
MyLabPath == Append(ABPath, <<109, 121, 45, 108, 97, 98, 45>>)
MyLabPathTrimmed == Append(ABPath, <<109, 121, 45, 108, 97, 98>>)

\* o is a new container made by new_container() of "a.b", never saved, whose
\* display_name is "My Lab!!", and the step is o.save()
SavesMyLab(o) ==
    /\ o.cls = "Container"
    /\ heap[o].new
    /\ o.key = ABPath
    /\ heap[o].path = ABPath
    /\ HasChange(heap[o], "display_name")
    /\ Change(heap[o], "display_name") = MyLab
    /\ ret'.op = "save"
    /\ ret'.obj = o

\* C23 as stated: save() on a brand-new child container of "a.b" whose
\* display_name is "My Lab!!" POSTs to /containers/a.b.my-lab.
C23_PostsToMyLab ==
    [][\A o \in held :
          SavesMyLab(o) => ret'.http = <<Post("/containers", MyLabPathTrimmed)>>
    ]_vars

\* C23: save() on a brand-new child container of "a.b" whose display_name is
\* "My Lab!!" derives the suffix "my-lab-" (the lower-cased first dot-segment
\* with every run of characters outside [a-z0-9-_] replaced by one hyphen,
\* the trailing "!!" included) and sends one POST to /containers/a.b.my-lab-.
C23_PostsToMyLabHyphen ==
    [][\A o \in held :
          SavesMyLab(o) =>
             /\ ret'.http = <<Post("/containers", MyLabPath)>>
             /\ ret'.err = "None" => heap'[o].path = MyLabPath
    ]_vars

\* the container named "My Lab!!" has been created at a.b.my-lab-
C23_Witness ==
    /\ ret.op = "save"
    /\ ret.status = 201
    /\ ret.obj.key = ABPath
    /\ ret.http = <<Post("/containers", MyLabPath)>>
    /\ heap[ret.obj].path = MyLabPath

\* C24: after a save() of a new Container answered 201 or 303 the container
\* is no longer new and has no pending changes, and every later save() of a
\* container that has been saved POSTs to the path it was saved at.
C24_SavedContainerNotNew ==
    /\ [](/\ ret.op = "save"
          /\ ret.obj.cls = "Container"
          /\ ret.status \in {201, 303}
          => /\ ~heap[ret.obj].new
             /\ heap[ret.obj].changes = {})
    /\ [][\A o \in held :
             (/\ o.cls = "Container"
              /\ heap[o].path # o.key
              /\ ret'.op = "save"
              /\ ret'.obj = o)
             => ret'.http = <<Post("/containers", heap[o].path)>>
       ]_vars

\* C25: a successful save() of a Switch or Container empties the pending
\* changes; answered 201 or 303 it discards the blob and the next
\* configuration read sends one GET; answered 200 the response body is the
\* blob and the next configuration read returns it without a GET.
C25_SaveResetsBlob ==
    [][/\ (ret'.op = "save" /\ ret'.err = "None") =>
            /\ ret'.status \in {200, 201, 303}
            /\ heap'[ret'.obj].changes = {}
            /\ ret'.status \in {201, 303} => heap'[ret'.obj].blob = NoBlob
            /\ ret'.status = 200 =>
                  \E resp \in SaveResponses :
                     /\ resp.status = 200
                     /\ heap'[ret'.obj].blob = [src |-> "POST", ver |-> resp.ver]
       /\ (/\ ret.op = "save"
           /\ ret.err = "None"
           /\ ret'.op = "getprop"
           /\ ret'.obj = ret.obj) =>
            IF ret.status = 200
            THEN /\ ret'.http = <<>>
                 /\ ret'.err = "None"
                 /\ ret'.val.from = "POST"
                 /\ ret'.val.value = heap[ret.obj].blob.ver
            ELSE ret'.http =
                    <<Get(IF ret.obj.cls = "Container" THEN "/containers"
                          ELSE "/switches", heap[ret.obj].path, NoIndex)>>
    ]_vars

\* a switch saved with 200 answers a read from the body of that response
C25_Witness ==
    /\ ret.op = "getprop"
    /\ ret.obj.cls = "Switch"
    /\ ret.http = <<>>
    /\ ret.val.from = "POST"
    /\ ret.val.value = 2
    /\ heap[ret.obj].changes = {}

\* C26: a save() that fails leaves the proxy as it was: without the name a
\* new proxy needs it fails before any POST, and a POST answered other than
\* 200, 201 or 303 raises APIException.
C26_FailedSaveRaisesAPIException ==
    [][(ret'.op = "save" /\ ret'.err # "None") =>
          /\ heap' = heap
          /\ IF ret'.status = 0
             THEN /\ ret'.http = <<>>
                  /\ ret'.err = "Exception"
                  /\ heap[ret'.obj].new
                  /\ ~HasChange(heap[ret'.obj], NameKey(ret'.obj.cls))
             ELSE /\ ret'.status \notin {200, 201, 303}
                  /\ ret'.err = "APIException"
    ]_vars

\* C27: Container.delete() fails without a DELETE when the container has
\* children; when it has none it sends one DELETE to /containers/{path},
\* returns on 410 and raises APIException on any other status.
C27_DeleteChecksChildren ==
    [][ret'.op = "delete" =>
          IF ret'.kids
          THEN ret'.http = <<>> /\ ret'.err # "None"
          ELSE /\ ret'.http = <<Delete("/containers", heap[ret'.obj].path)>>
               /\ ret'.status = 410 => ret'.err = "None"
               /\ ret'.status # 410 => ret'.err = "APIException"
    ]_vars

\* C28: every access to status or progress of a switch that is not new sends
\* one GET to /switches/{path}/status, memoizes nothing, and returns the value
\* of the response to that GET, whether or not the proxy holds a blob.
C28_StatusAlwaysFetched ==
    [][(ret'.op \in {"status", "progress"} /\ ~heap[ret'.obj].new) =>
          /\ ret'.http = <<GetStatus(heap[ret'.obj].path)>>
          /\ heap' = heap
          /\ ret'.resp.status = 200 =>
                /\ ret'.err = "None"
                /\ ret'.op = "status" =>
                      /\ ret'.val.value = ret'.resp.state
                      /\ ret'.val.time = ret'.resp.stime
                /\ ret'.op = "progress" =>
                      /\ ret'.val.value = <<ret'.resp.done, ret'.resp.size>>
                      /\ ret'.val.time = ret'.resp.ptime
    ]_vars

\* a saved switch that holds the blob of its save is asked for its status
\* and answers with the state the service reports now
C28_Witness ==
    /\ ret.op = "status"
    /\ ~heap[ret.obj].new
    /\ heap[ret.obj].blob # NoBlob
    /\ ret.http = <<GetStatus(heap[ret.obj].path)>>
    /\ ret.val.value = "error"

\* C29: a lookup of an interface sends no request; an attribute read of a
\* proxy without a snapshot sends one GET to /interfaces/{path}/{index} and
\* memoizes the snapshot it receives; an attribute read of a proxy with a
\* snapshot sends nothing, keeps the snapshot and answers from it.
C29_InterfaceReadThrough ==
    [][/\ ret'.op = "interface" => ret'.http = <<>>
       /\ ret'.op = "getattr" =>
            IF heap[ret'.obj].blob = NoBlob
            THEN /\ ret'.http = <<Get("/interfaces", heap[ret'.obj].path,
                                      heap[ret'.obj].index)>>
                 /\ ret'.err = "None" =>
                       /\ heap'[ret'.obj].blob # NoBlob
                       /\ ret'.val.from # "None" =>
                             ret'.val.value = heap'[ret'.obj].blob.ver
            ELSE /\ ret'.http = <<>>
                 /\ ret'.err = "None"
                 /\ heap'[ret'.obj].blob = heap[ret'.obj].blob
                 /\ ret'.val.from # "None" => ret'.val.value = heap[ret'.obj].blob.ver
                 /\ ret'.val.from # "None" <=> ret'.name \in heap[ret'.obj].blob.names
    ]_vars

\* a read answered from the snapshot that an earlier read fetched
C29_Witness ==
    /\ ret.op = "getattr"
    /\ ret.http = <<>>
    /\ ret.val.from = "/interfaces"
    /\ ret.val.value = 7
    /\ heap[ret.obj].blob.ver = 7

\* C30: mac_search sends one GET to /macs/{fragment}; answered 200 it returns
\* one MACNeighbour per entry of the response, ascending by (path, index),
\* each bound to the cached Interface of its entry; answered otherwise it
\* raises APIException.
C30_OneNeighbourPerEntry ==
    [][ret'.op = "mac_search" =>
          /\ ret'.http = <<Get("/macs", MacFragment, NoIndex)>>
          /\ ret'.status # 200 => ret'.err = "APIException"
          /\ ret'.status = 200 =>
                /\ ret'.err = "None"
                /\ Len(ret'.val) = Len(ret'.entries)
                /\ \A i \in 1..Len(ret'.val) :
                      /\ \E j \in 1..Len(ret'.entries) :
                            ret'.val[i].intf.key =
                               <<ret'.entries[j].path, ret'.entries[j].index>>
                      /\ \E k \in 1..Len(intf_cache') :
                            intf_cache'[k].obj = ret'.val[i].intf
                /\ \A i, j \in 1..Len(ret'.val) :
                      i < j =>
                         ~KeyLess([path |-> ret'.val[j].intf.key[1],
                                   index |-> ret'.val[j].intf.key[2]],
                                  [path |-> ret'.val[i].intf.key[1],
                                   index |-> ret'.val[i].intf.key[2]])
    ]_vars

\* the class that from_blob makes of an entry of a known type
VariantOf(type) ==
    IF type = "interface" THEN "InterfaceChange"
    ELSE IF type = "switch" THEN "SwitchChange"
    ELSE IF type = "interface_write" THEN "InterfaceWriteChange"
    ELSE "SwitchWriteChange"

\* C31: a history answered 200 returns one change per log entry, each of the
\* variant of its type tag, when every tag is one of the four known ones; when
\* one entry has another tag the call fails with the unsupported-change-type
\* error and returns no list, whatever the entries before it were.
C31_UnknownTagFailsWhole ==
    [][(ret'.op = "history" /\ ret'.status = 200) =>
          IF \A i \in 1..Len(ret'.logs) : ret'.logs[i].type \in ChangeTypes
          THEN /\ ret'.err = "None"
               /\ Len(ret'.val) = Len(ret'.logs)
               /\ \A i \in 1..Len(ret'.logs) :
                     /\ ret'.val[i].cls = VariantOf(ret'.logs[i].type)
                     /\ ret'.val[i].stamp = ret'.logs[i].time
                     /\ ret'.val[i].path = heap[ret'.obj].path
          ELSE /\ ret'.err = "Exception: Unsupported change type"
               /\ ret'.val = <<>>
    ]_vars

\* a history whose second entry has an unknown tag: the first entry alone
\* would have made a change, and nothing is returned
C31_Witness ==
    /\ ret.op = "history"
    /\ ret.status = 200
    /\ Len(ret.logs) = 2
    /\ ret.logs[1].type = "interface_write"
    /\ ret.logs[2].type = "vlan"
    /\ ret.err = "Exception: Unsupported change type"
    /\ ret.val = <<>>

\* the value and the integer time a TimedValue was constructed from, when it
\* was constructed from {value: v, time: t} or from the arguments v and t
FromInt ==
    IF tv.src.kind = "dict" THEN tv.src.time.kind = "int"
    ELSE tv.src.kind = "None" /\ tv.time.kind = "int"
GivenValue == IF tv.src.kind = "dict" THEN tv.src.value ELSE tv.value
GivenTime == IF tv.src.kind = "dict" THEN tv.src.time.n ELSE tv.time.n

\* C33: a TimedValue constructed from {value: v, time: t} with integer t, as
\* the src mapping or as the value and time arguments, is constructed without
\* an error, every read of .value yields v and every read of .raw_time yields
\* t, and no read changes the object.
C33_TimedValueRoundTrip ==
    /\ [](FromInt => /\ tv.obj.err = "None"
                     /\ tv.obj.value = GivenValue
                     /\ tv.obj.time = GivenTime)
    /\ [][ret'.op \in {"value", "raw_time", "time", "repr", "str"} =>
             /\ tv' = tv
             /\ (FromInt /\ ret'.op = "value") => ret'.val = GivenValue
             /\ (FromInt /\ ret'.op = "raw_time") => ret'.val = GivenTime
       ]_vars

\* a TimedValue made from the mapping {value: "up", time: 2}, while the time
\* argument was left out, has been read several times and still reads 2
C33_Witness ==
    /\ ret.op = "raw_time"
    /\ ret.val = 2
    /\ tv.src = Src("up", Num(2, FALSE))
    /\ tv.time = NoNum
    /\ tv.obj.value = "up"

\* C35: on a saved Switch without pending changes, a data read that no data
\* read preceded sends a GET to /switches/{path}/data, also when the proxy
\* holds a configuration snapshot; and a configuration read that no
\* configuration read preceded sends a GET to /switches/{path}, also when the
\* proxy holds a data snapshot.
C35_EachKindFetchesItsOwn ==
    [][/\ (/\ ret'.op = "getdataprop"
           /\ ~heap[ret'.obj].new
           /\ heap[ret'.obj].changes = {}
           /\ heap[ret'.obj].blob.src # "/switches/{path}/data")
          => ret'.http = <<Get("/switches/{path}/data", heap[ret'.obj].path, NoIndex)>>
       /\ (/\ ret'.op = "getprop"
           /\ ret'.obj.cls = "Switch"
           /\ ~heap[ret'.obj].new
           /\ heap[ret'.obj].changes = {}
           /\ heap[ret'.obj].blob.src = "/switches/{path}/data")
          => ret'.http = <<Get("/switches", heap[ret'.obj].path, NoIndex)>>
    ]_vars

\* C36: every WriteSpec that a write() removes from the queue was in the
\* argument list of its request: the reply ok removes the WriteSpecs that were
\* sent and leaves the ones appended since.
C36_OnlySentSpecsRemoved ==
    [][\A g \in Slots :
          (Read(g) /\ gens[g].kind = "write" /\ writespecs' # writespecs) =>
             /\ IsPrefix(SpecsSent(gens[g].cookie), writespecs)
             /\ writespecs' = SubSeq(writespecs, Len(SpecsSent(gens[g].cookie)) + 1,
                                     Len(writespecs))
    ]_vars

\* C37: write() sends no frame, takes no correlation ID and leaves the queue
\* as it is; a request is sent, with the next ID, only by the first
\* advancement of a generator (Client.stats makes and advances its generator
\* in one call), so the IDs of the requests sent increase in the order of the
\* first advancements.
C37_LazyRequests ==
    /\ [][/\ ret'.op = "write" =>
               /\ sent' = sent
               /\ ws_cookie' = ws_cookie
               /\ writespecs' = writespecs
               /\ gens'[ret'.gen].pc = "created"
               /\ gens'[ret'.gen].cookie = 0
          /\ (sent' # sent \/ ws_cookie' # ws_cookie) =>
               /\ \/ ret'.op = "stats"
                  \/ ret'.op = "next" /\ gens[ret'.gen].pc = "created"
               /\ Len(sent') = Len(sent) + 1
               /\ SubSeq(sent', 1, Len(sent)) = sent
               /\ sent'[Len(sent')].cookie = ws_cookie
               /\ gens'[ret'.gen].cookie = ws_cookie
               /\ ws_cookie' = ws_cookie + 1
       ]_vars
    /\ [](\A i, j \in 1..Len(sent) : i < j => sent[i].cookie < sent[j].cookie)

\* the write generator was made first and has no ID; the stats request made
\* after it was sent with ID 1
C37_Witness ==
    /\ ret.op = "stats"
    /\ gens["w"].pc = "created"
    /\ gens["w"].cookie = 0
    /\ writespecs # <<>>
    /\ gens["stats"].cookie = 1
    /\ Len(sent) = 1

\* C38: Client.interface(path, index) uses the switch cache as
\* Client.switch(path) does: afterwards the switch of path is cached as the
\* most recently used entry; it was inserted if it was not cached, evicting
\* the least recently used switch from a full cache, and the cache holds the
\* same switches otherwise; the container cache is unchanged.
C38_InterfaceUsesSwitchCache ==
    [][ret'.op = "interface" =>
          LET path == ret'.obj.key[1]
          IN  /\ cont_cache' = cont_cache
              /\ Len(sw_cache') > 0
              /\ Len(sw_cache') <= SwCacheSize
              /\ sw_cache'[Len(sw_cache')].key = path
              /\ IF path \in LRUKeys(sw_cache)
                 THEN /\ LRUKeys(sw_cache') = LRUKeys(sw_cache)
                      /\ CacheObjs(sw_cache') = CacheObjs(sw_cache)
                 ELSE LRUKeys(sw_cache') =
                         (LRUKeys(sw_cache) \
                             (IF Len(sw_cache) = SwCacheSize THEN {sw_cache[1].key}
                              ELSE {})) \cup {path}
    ]_vars

\* an interface lookup on a fresh switch has evicted the hot switch from the
\* full switch cache while it had unsaved changes
C38_Witness ==
    /\ ret.op = "interface"
    /\ Len(sw_cache) = SwCacheSize
    /\ HotPath \notin LRUKeys(sw_cache)
    /\ \E ev \in Events : ev.cache = "sw" /\ ev.lostNow /\ HotPath \in ev.evicted

\* C39: a read of a configuration property that was not assigned, on an
\* unsaved proxy made by new_switch() or new_container(), sends no request
\* and returns None.
C39_NewProxyReadsNothing ==
    [][(/\ ret'.op = "getprop"
        /\ heap[ret'.obj].new
        /\ heap[ret'.obj].path = ret'.obj.key
        /\ ~HasChange(heap[ret'.obj], NameKey(ret'.obj.cls)))
       => /\ ret'.http = <<>>
          /\ ret'.err = "None"
          /\ ret'.val.from = "None"
    ]_vars

\* the write whose request carried a WriteSpec for this attribute of this
\* interface has read its reply ok
Written(o, name) ==
    /\ gens["w"].pc \in {"yielded_ok", "done"}
    /\ \E i \in 1..Len(sent) :
          /\ sent[i].cookie = gens["w"].cookie
          /\ \E k \in 1..Len(sent[i].args.specs) :
                /\ sent[i].args.specs[k].path = heap[o].path
                /\ sent[i].args.specs[k].index = heap[o].index
                /\ sent[i].args.specs[k].attribute = name

\* C40: no step of a write() changes a proxy or a cache, and an Interface
\* that holds a snapshot answers a read of an attribute that a finished write
\* has written from that snapshot, without a GET.
C40_WriteKeepsBlobs ==
    [][/\ ret'.op \in {"write", "next", "recv"} =>
            /\ heap' = heap
            /\ intf_cache' = intf_cache
       /\ (/\ ret'.op = "getattr"
           /\ heap[ret'.obj].blob # NoBlob
           /\ Written(ret'.obj, ret'.name))
          => /\ ret'.http = <<>>
             /\ heap'[ret'.obj].blob = heap[ret'.obj].blob
             /\ ret'.val.from # "None" => ret'.val.value = heap[ret'.obj].blob.ver
    ]_vars

\* the snapshot was fetched, then vlan was assigned and written, and the read
\* after the reply ok still returns the value of the snapshot
C40_Witness ==
    /\ ret.op = "getattr"
    /\ ret.http = <<>>
    /\ ret.val.from = "/interfaces"
    /\ ret.val.value = 7
    /\ Written(ret.obj, "vlan")
    /\ writespecs = <<>>

====
